---------------------------- MODULE Spec2Model ----------------------------
(***************************************************************************)
(* A model of the multi-agent coding assistant:                            *)
(*   - the capability resolvers (MCPRegistry.resolve_tools of the agent    *)
(*     runtime, ContextAwareMCPRegistry.resolve_tools of the agent server),*)
(*   - the file access guard (FileAccessMiddleware) and the agent tool     *)
(*     loop it wraps,                                                      *)
(*   - the orchestration graph (classify -> route -> specialist ->         *)
(*     compose) of MultiAgentOrchestrator.                                 *)
(* Three specifications share the variables: ResolveSpec, GuardSpec /      *)
(* LoopSpec and Spec (the orchestration graph).                            *)
(***************************************************************************)
EXTENDS Naturals, Integers, Sequences, FiniteSets, TLC

(***************************************************************************)
(* Bounds of the model.                                                    *)
(***************************************************************************)
\* longest required / optional tool list a manifest supplies
MaxListLen == 2
\* most components of a path argument of a one-path tool call
MaxPathLen == 3
\* most components of each path argument of a two-path (move) tool call
MaxMoveLen == 2
\* most model calls of one agent invocation that may request tools
MaxIter == 3
\* most tool calls one model response requests
MaxCallsPerMsg == 1
\* most lines of a classifier response
MaxLines == 2

VARIABLES
    rcall,      \* resolver: the call being resolved, or NoCall
    rout,       \* resolver: what the call produced (returned value or raised error)
    fsenv,      \* the filesystem the guard resolves against: symlink target, process cwd
    agent_context, \* BaseAgent.agent_context: [source, working_dir]
    apc,        \* agent invocation: "idle", "model", "tools", "done"
    iter,       \* model calls made in this invocation
    messages,   \* the conversation of the invocation (result["messages"])
    pending,    \* tool calls of the last model response not yet run
    trace,      \* history: guard checks and handler executions, in order
    aresult,    \* what process_with_tools returned, once it has
    running_agent, \* the agent create_agent built that this invocation's ainvoke runs
    waiting,    \* the other invocation of the same BaseAgent, while this one runs
    agents,     \* orchestrator: the agents _initialize_agents created
    gnode,      \* orchestrator: the graph node of the run, "idle" before, "returned" after
    gphase,     \* orchestrator: "enter" a node, or "await" its agent's process()
    state,      \* orchestrator: the OrchestratorState of the run
    supervisor_output, \* history: the classifier's response of the run
    events,     \* history: stage starts and ends, in order
    result,     \* orchestrator: what execute() returned
    parked,     \* orchestrator: the other run in flight, while this one has the thread
    written,    \* history: what the run's own nodes wrote to its state
    mcp_client,         \* BaseAgent._mcp_client: "None" or "client"
    mcp_tools_cache,    \* BaseAgent._mcp_tools_cache: "None", "empty" ([]) or "tools"
    mcp_servers_config, \* BaseAgent._mcp_servers_config: "None", "empty" ({}) or "servers"
    init_calls, \* each caller of initialize_mcp_servers: where it is, what it saw
    active_connections, \* workflow_routes.active_connections: execution id -> socket
    sockets,    \* each WebSocket client: where its handler is, the id it asked for
    last_broadcast, \* history: the last broadcast_to_stream, and the socket it sent to
    network,    \* ParallelAgentNetwork: execute_parallel's position, max_workers, results
    team_runs   \* each team's execute_team in the pool: where it is, its future

rvars == <<rcall, rout>>
avars == <<fsenv, agent_context, apc, iter, messages, pending, trace, aresult,
           running_agent, waiting>>
gvars == <<agents, gnode, gphase, state, supervisor_output, events, result,
           parked, written>>
mvars == <<mcp_client, mcp_tools_cache, mcp_servers_config, init_calls>>
wvars == <<active_connections, sockets, last_broadcast>>
tvars == <<network, team_runs>>
vars == <<rcall, rout, fsenv, agent_context, apc, iter, messages, pending, trace,
          aresult, running_agent, waiting, agents, gnode, gphase, state, supervisor_output, events, result,
          parked, written, mcp_client, mcp_tools_cache, mcp_servers_config,
          init_calls, active_connections, sockets, last_broadcast, network,
          team_runs>>

(***************************************************************************)
(* Sequence helpers.                                                       *)
(***************************************************************************)
Range(s) == { s[i] : i \in DOMAIN s }

SeqsUpTo(S, n) == UNION { [1..k -> S] : k \in 0..n }

(***************************************************************************)
(* Capability registry: the static catalog.                                *)
(***************************************************************************)
Contexts == {"nvim", "vscode", "shell", "web"}

\* MCPRegistry.AVAILABLE_TOOLS: tool name -> available_in_contexts
AVAILABLE_TOOLS ==
    [ t \in {"lsp", "tree-sitter", "nvim-mcp", "continue-mcp",
             "filesystem", "git", "web-search"} |->
        CASE t = "lsp"          -> {"nvim", "vscode"}
          [] t = "tree-sitter"  -> {"nvim", "vscode"}
          [] t = "nvim-mcp"     -> {"nvim"}
          [] t = "continue-mcp" -> {"vscode"}
          [] t = "filesystem"   -> {"nvim", "vscode", "shell", "web"}
          [] t = "git"          -> {"nvim", "vscode", "shell"}
          [] t = "web-search"   -> {"shell", "web"} ]

\* MCPTool.is_available
is_available(t, context) == context \in AVAILABLE_TOOLS[t]

\* MCPRegistry.get_available_tools, as the name set resolve_tools builds from it
get_available_tools(context) ==
    { t \in DOMAIN AVAILABLE_TOOLS : is_available(t, context) }

\* The tool names manifests are drawn from: catalog names and one name the
\* catalog does not know.
InputNames == {"lsp", "nvim-mcp", "filesystem", "git", "docker"}

FallbackModes == {"degrade", "fail"}

NoCall == [impl |-> "none"]
NoOut  == [kind |-> "none"]

(***************************************************************************)
(* MCPRegistry.resolve_tools (ai-agent-runtime/mcp/registry.py).           *)
(***************************************************************************)
\* a resolver that lets missing required names through when degrading
RegistryResolvedKeepsMissing(required, optional, available) ==
    required \o SelectSeq(optional, LAMBDA n : n \in available)

\* the two loops over required and optional: a name goes to resolved when it
\* is available in the context, to the missing list otherwise
RegistryResolved(required, optional, available) ==
    SelectSeq(required, LAMBDA n : n \in available)
        \o SelectSeq(optional, LAMBDA n : n \in available)

\* a resolver that treats a missing optional tool like a missing required one
resolve_tools_optional_raises(required, optional, context, fallback_mode) ==
    LET available == get_available_tools(context)
        missing   == SelectSeq(required \o optional, LAMBDA n : n \notin available)
    IN  IF missing # <<>> /\ fallback_mode = "fail"
        THEN [kind |-> "raised", named |-> Range(missing)]
        ELSE [kind |-> "returned",
              resolved |-> RegistryResolved(required, optional, available),
              missing_required |-> SelectSeq(required, LAMBDA n : n \notin available),
              missing_optional |-> SelectSeq(optional, LAMBDA n : n \notin available),
              available_in_context |-> available]

resolve_tools(required, optional, context, fallback_mode) ==
    LET available        == get_available_tools(context)
        resolved         == RegistryResolved(required, optional, available)
        missing_required == SelectSeq(required, LAMBDA n : n \notin available)
        missing_optional == SelectSeq(optional, LAMBDA n : n \notin available)
    IN  IF missing_required # <<>> /\ fallback_mode = "fail"
        THEN \* raise ValueError(f"Missing required tools: {missing_required}")
             [kind |-> "raised", named |-> Range(missing_required)]
        ELSE [kind |-> "returned",
              resolved |-> resolved,
              missing_required |-> missing_required,
              missing_optional |-> missing_optional,
              available_in_context |-> available]

(***************************************************************************)
(* ContextAwareMCPRegistry (agent-server/main.py).                         *)
(***************************************************************************)
\* get_tools' context_mcp_map; an unknown context has no tools
context_mcp_map(context) ==
    CASE context = "nvim"   -> {"nvim-mcp", "lsp", "tree-sitter", "filesystem", "git"}
      [] context = "vscode" -> {"continue-mcp", "lsp", "filesystem", "git"}
      [] context = "shell"  -> {"filesystem", "git", "web-search"}
      [] OTHER              -> {}

\* get_tools: walks tool_names in order; with required = TRUE the first
\* unavailable name raises ValueError naming that one tool
get_tools(tool_names, context, required) ==
    LET available == context_mcp_map(context)
        missing   == SelectSeq(tool_names, LAMBDA n : n \notin available)
    IN  IF required /\ missing # <<>>
        THEN [raised |-> TRUE, tools |-> <<>>, named |-> {missing[1]}]
        ELSE [raised |-> FALSE,
              tools  |-> SelectSeq(tool_names, LAMBDA n : n \in available),
              named  |-> {}]

ctx_resolve_tools(required, optional, context, fallback_mode) ==
    LET req == get_tools(required, context, TRUE)
        opt == get_tools(optional, context, FALSE)
    IN  IF req.raised /\ fallback_mode = "fail"
        THEN [kind |-> "raised", named |-> req.named]
        ELSE [kind |-> "returned",
              resolved |-> (IF req.raised THEN <<>> ELSE req.tools) \o opt.tools,
              available_in_context |-> context_mcp_map(context)]

(***************************************************************************)
(* BaseAgent.setup_agent's tool selection (agents/base.py).                *)
(***************************************************************************)
\* the tool names of _mcp_tools_cache, in the order the MCP client gave them
Caches ==
    { << >>, <<"git", "filesystem">>, <<"filesystem", "git", "lsp">>,
      <<"git_status", "git">> }

\* part occurs in name, for the names above
Substring(part, name) ==
    part = name \/ <<part, name>> \in { <<"git", "git_status">> }

\* a selection that takes a cached tool when a manifest name occurs in its name
setup_agent_tools_substring(cache, required, optional) ==
    LET all_tool_names == required \o optional
    IN  IF all_tool_names = << >> \/ cache = << >>
        THEN << >>
        ELSE SelectSeq(cache, LAMBDA n :
                 \E m \in Range(all_tool_names) : Substring(m, n))

\* self.tools: the cached tools whose name is in requiredTools +
\* optionalTools, in cache order; none when either side is empty
setup_agent_tools(cache, required, optional) ==
    LET all_tool_names == required \o optional
    IN  IF all_tool_names = << >> \/ cache = << >>
        THEN << >>
        ELSE SelectSeq(cache, LAMBDA n : n \in Range(all_tool_names))

(***************************************************************************)
(* The filesystem the guard resolves paths against.  A path is a record    *)
(* [abs, comps, nul]: absolute or relative, its components, and whether    *)
(* the string holds a NUL byte (which pathlib refuses to resolve).         *)
(***************************************************************************)
PathNames == {"proj", "etc", "link"}
Components == PathNames \cup {".."}

Root == << >>
HOME == <<"home">>
\* the one symbolic link of the modelled tree
LinkPath == <<"proj", "link">>
\* where the link may point: outside the project, or inside it
LinkTargets == { <<"etc">>, <<"proj", "etc">> }
\* the existing directories (a link to a directory is one)
Directories == { Root, HOME, <<"proj">>, <<"etc">>, <<"proj", "etc">> }
\* directories the server process may run in
Cwds == { <<"proj">>, HOME }

AbsPath(comps) == [abs |-> TRUE, comps |-> comps, nul |-> FALSE]
RelPath(comps) == [abs |-> FALSE, comps |-> comps, nul |-> FALSE]
NulPath == [abs |-> TRUE, comps |-> <<"etc">>, nul |-> TRUE]

\* os.path.realpath, non-strict, as Path.resolve() uses it: ".." drops the
\* last resolved component (the root stays), a symlink is replaced by its
\* resolved target, any other name is appended whether it exists or not
RECURSIVE joinrealpath(_, _, _)
joinrealpath(path, rest, link) ==
    IF rest = << >> THEN path
    ELSE LET name == Head(rest)
             tail == Tail(rest)
         IN  IF name = ".."
             THEN joinrealpath(IF path = Root THEN Root
                               ELSE SubSeq(path, 1, Len(path) - 1), tail, link)
             ELSE IF Append(path, name) = LinkPath
                  THEN joinrealpath(joinrealpath(Root, link, link), tail, link)
                  ELSE joinrealpath(Append(path, name), tail, link)

\* Path(p).resolve(): a relative path starts at the process's cwd
resolve(p, env) ==
    joinrealpath(IF p.abs THEN Root ELSE env.cwd, p.comps, env.link)

\* Path.resolve() that only makes the path absolute: no "..", no symlinks
resolve_lexical(p, env) ==
    (IF p.abs THEN Root ELSE env.cwd) \o p.comps

\* PurePath.relative_to(root) succeeds: root's components are a prefix
relative_to(target, root) ==
    /\ Len(root) <= Len(target)
    /\ SubSeq(target, 1, Len(root)) = root

\* Path.is_dir(), which follows symlinks
is_dir(p, env) == resolve(AbsPath(p), env) \in Directories

(***************************************************************************)
(* AgentContext (context.py).                                              *)
(***************************************************************************)
ContextSource == {"shell", "nvim", "vscode", "web"}

\* Path(self.working_dir).resolve() raises ValueError when the string holds
\* a NUL byte; allowed_roots does not catch it
allowed_roots_raises(context) == context.working_dir.nul

\* AgentContext.allowed_roots: the resolved working directory, or the home
\* directory when that is no directory; the same single root for every source
allowed_roots(context, env) ==
    LET working_path == resolve(context.working_dir, env)
    IN  IF working_path \in Directories THEN << working_path >> ELSE << HOME >>

(***************************************************************************)
(* FileAccessMiddleware (middleware.py).                                   *)
(***************************************************************************)
\* filesystem_tools: tool name -> the argument fields that carry paths
filesystem_tools ==
    [ t \in {"read_file", "write_file", "edit_file", "create_directory",
             "list_directory", "move_file", "search_files", "get_file_info"} |->
        IF t = "move_file" THEN <<"source", "destination">> ELSE <<"path">> ]

\* _is_path_allowed with the target left unresolved
is_path_allowed_unresolved(path, roots, env) ==
    /\ ~path.nul
    /\ \E i \in DOMAIN roots :
          relative_to(resolve_lexical(path, env), resolve(AbsPath(roots[i]), env))

\* FileAccessMiddleware._is_path_allowed: resolve the target, then try each
\* root resolved; any exception while resolving denies
is_path_allowed(path, roots, env) ==
    /\ ~path.nul
    /\ \E i \in DOMAIN roots :
          relative_to(resolve(path, env), resolve(AbsPath(roots[i]), env))

\* a guard that checks the path fields of every tool, listed or not
FirstDeniedAnyTool(call, roots, env) ==
    LET fields == <<"path", "source", "destination">>
        bad == SelectSeq(fields, LAMBDA f :
                   /\ f \in DOMAIN call.args
                   /\ ~is_path_allowed(call.args[f], roots, env))
    IN  IF bad = << >> THEN << >> ELSE << call.args[bad[1]] >>

\* a guard that checks only the first path field of a tool
FirstDeniedFirstFieldOnly(call, roots, env) ==
    IF call.name \notin DOMAIN filesystem_tools THEN << >>
    ELSE LET f == filesystem_tools[call.name][1]
         IN  IF f \in DOMAIN call.args /\ ~is_path_allowed(call.args[f], roots, env)
             THEN << call.args[f] >> ELSE << >>

\* the loop over path_fields: the first field present in the arguments whose
\* path is not allowed denies the call with that path
FirstDenied(call, roots, env) ==
    IF call.name \notin DOMAIN filesystem_tools THEN << >>
    ELSE LET fields == filesystem_tools[call.name]
             bad == SelectSeq(fields, LAMBDA f :
                        /\ f \in DOMAIN call.args
                        /\ ~is_path_allowed(call.args[f], roots, env))
         IN  IF bad = << >> THEN << >> ELSE << call.args[bad[1]] >>

\* a guard that keeps the decision of the invocation's first check
validate_cached(call) ==
    LET checks == SelectSeq(trace, LAMBDA e : e.ev = "check")
        roots  == allowed_roots(running_agent.context, fsenv)
        denied == FirstDenied(call, roots, fsenv)
    IN  IF checks # << >>
        THEN [allow |-> checks[1].allow, path |-> NulPath, roots |-> roots]
        ELSE [allow |-> denied = << >>,
              path  |-> IF denied = << >> THEN NulPath ELSE denied[1],
              roots |-> roots]

\* a guard that reads the context of the BaseAgent instance at each call,
\* not the one its middleware was built with
validate_instance_context(call) ==
    LET roots  == allowed_roots(agent_context, fsenv)
        denied == FirstDenied(call, roots, fsenv)
    IN  [allow |-> denied = << >>,
         path  |-> IF denied = << >> THEN NulPath ELSE denied[1],
         roots |-> roots]

\* the validation half of _validate_and_execute / _avalidate_and_execute for
\* one request, against the middleware's context: the AgentContext that
\* setup_agent handed FileAccessMiddleware when it built the running agent
validate(call) ==
    LET roots  == allowed_roots(running_agent.context, fsenv)
        denied == FirstDenied(call, roots, fsenv)
    IN  [allow |-> denied = << >>,
         path  |-> IF denied = << >> THEN NulPath ELSE denied[1],
         roots |-> roots]

\* a denial that raises instead of returning
RaisedDenial(call, v) ==
    [type |-> "raised", denied |-> TRUE, call |-> call, path |-> v.path,
     source |-> running_agent.context.source, roots |-> v.roots]

\* the value returned on denial: {"type": "error", "content": "Access denied: ..."}
DenialResult(call, v) ==
    [type |-> "error", denied |-> TRUE, call |-> call, path |-> v.path,
     source |-> running_agent.context.source, roots |-> v.roots]

\* what the wrapped handler returns: the tool's result message
HandlerResult(call) ==
    [type |-> "tool", denied |-> FALSE, call |-> call]

(***************************************************************************)
(* The agent invocation: BaseAgent.process_with_tools runs the agent that  *)
(* setup_agent created with the FileAccessMiddleware around every tool     *)
(* call.  The loop itself (model call, then one wrapped tool call per      *)
(* requested invocation, results appended to the conversation) is the      *)
(* agent's; the middleware and the error handling are the repository's.    *)
(***************************************************************************)
\* wrap_tool_call / awrap_tool_call: validate, then either return the denial
\* or call the handler and return its result
wrap_tool_call(call) ==
    LET v == validate(call)
    IN  IF v.allow
        THEN [ret |-> HandlerResult(call), handled |-> TRUE,  allow |-> TRUE]
        ELSE [ret |-> DenialResult(call, v), handled |-> FALSE, allow |-> FALSE]

ToolCallRecord(name, args) == [name |-> name, args |-> args]

\* the tool calls tried against the guard alone: every path up to MaxPathLen
\* components for a one-path tool and for a tool the guard does not list,
\* every pair up to MaxMoveLen components for move_file
OnePaths ==
    { AbsPath(c) : c \in SeqsUpTo(Components, MaxPathLen) }
        \cup { RelPath(c) : c \in SeqsUpTo(Components, MaxPathLen) }
        \cup { NulPath }
MovePaths == { AbsPath(c) : c \in SeqsUpTo(Components, MaxMoveLen) }
GuardCalls ==
    { ToolCallRecord(n, [f \in fs |-> p]) :
        n \in {"read_file", "git_status"}, fs \in SUBSET {"path"}, p \in OnePaths }
    \cup
    UNION { { ToolCallRecord("move_file", a) : a \in [fs -> MovePaths] } :
            fs \in SUBSET {"source", "destination"} }

\* the tool calls the model may request in the multi-iteration loop: a read
\* inside the project, a read of /etc/etc, and an unlisted tool given /etc
LoopCalls ==
    { ToolCallRecord("read_file",  [f \in {"path"} |-> AbsPath(<<"proj", "proj">>)]),
      ToolCallRecord("read_file",  [f \in {"path"} |-> AbsPath(<<"etc", "etc">>)]),
      ToolCallRecord("git_status", [f \in {"path"} |-> AbsPath(<<"etc">>)]) }

\* working directories a request may name: the project, the link inside it,
\* and a path that is no directory
WorkingDirs ==
    { AbsPath(<<"proj">>), AbsPath(<<"proj", "link">>), AbsPath(<<"etc", "proj">>) }
\* every working directory string an AgentContext may be built with: the
\* paths above, and paths at and below the home directory
ContextDirs ==
    OnePaths \cup { AbsPath(HOME \o c) : c \in SeqsUpTo(PathNames, 1) }
SourcesTried == {"shell", "web"}

\* BaseAgent.__init__: self.agent = None
NoAgent == [tools |-> << >>, context |-> [source |-> "none", working_dir |-> AbsPath(HOME)]]

\* an invocation of process_with_tools that has not begun
IdleInvocation ==
    [apc |-> "idle", iter |-> 0, messages |-> << >>, pending |-> << >>,
     trace |-> << >>, aresult |-> [kind |-> "none"], running_agent |-> NoAgent]

AgentIdle ==
    /\ fsenv \in [link : LinkTargets, cwd : Cwds]
    /\ agent_context = [source |-> "none", working_dir |-> AbsPath(HOME)]
    /\ apc = "idle"
    /\ iter = 0
    /\ messages = << >>
    /\ pending = << >>
    /\ trace = << >>
    /\ aresult = [kind |-> "none"]
    /\ running_agent = NoAgent
    /\ waiting = IdleInvocation

\* an exception that leaves process_with_tools instead of being caught
PropagatedError(cause) == [kind |-> "raised", cause |-> cause]

\* process_with_tools' except branch: the exception is logged and the
\* function returns the string "Error: ..." as its content
CaughtError(cause) == [kind |-> "error", cause |-> cause]

\* setup_agent runs before process_with_tools' try: _enhance_system_prompt
\* and FileAccessMiddleware's constructor read context.allowed_roots, and
\* what that raises leaves process_with_tools
SetupError == [kind |-> "raised", cause |-> "setup"]

\* the names of self.tools, the tools setup_agent bound to the agent
BoundTools == <<"read_file", "git_status", "write_file">>

\* the AgentOutput an agent's execute builds around the loop's content:
\* toolsused is the list of the tools bound to the agent
AgentOutput(content) == [content |-> content, toolsused |-> BoundTools]

\* process_with_tools up to agent.ainvoke: setup_agent binds the context
\* (and with it the middleware's roots) for this invocation, and the agent
\* it created is the one ainvoke is called on, with no await in between.
\* When the context equals the instance's, setup_agent is skipped and the
\* agent at hand was built with an equal context and the same tools
ProcessWithTools(dirs) ==
    /\ apc = "idle"
    /\ \E source \in SourcesTried, wd \in dirs :
          agent_context' = [source |-> source, working_dir |-> wd]
    /\ running_agent' = [tools |-> BoundTools, context |-> agent_context']
    /\ IF allowed_roots_raises(agent_context')
       THEN /\ apc' = "done"
            /\ aresult' = SetupError
            /\ UNCHANGED messages
       ELSE /\ apc' = "model"
            /\ messages' = << [type |-> "human"] >>
            /\ UNCHANGED aresult
    /\ UNCHANGED <<fsenv, iter, pending, trace, waiting>>
    /\ UNCHANGED <<rvars, mvars, wvars, tvars, gvars>>

\* one model call: a final answer ends the invocation, a response with tool
\* calls hands them to the tool step
ModelCall(calls, maxIter, maxCalls) ==
    /\ apc = "model"
    /\ \/ /\ messages' = Append(messages, [type |-> "ai", tool_calls |-> << >>])
          /\ apc' = "done"
          /\ aresult' = [kind |-> "answer"]
          /\ UNCHANGED <<iter, pending>>
       \/ /\ iter < maxIter
          /\ \E n \in 1..maxCalls : \E cs \in [1..n -> calls] :
                /\ messages' = Append(messages, [type |-> "ai", tool_calls |-> cs])
                /\ pending' = cs
          /\ iter' = iter + 1
          /\ apc' = "tools"
          /\ UNCHANGED aresult
    /\ UNCHANGED <<fsenv, agent_context, running_agent, waiting, trace>>
    /\ UNCHANGED <<rvars, mvars, wvars, tvars, gvars>>

\* the model call raises: process_with_tools catches it and returns "Error: ..."
ModelCallFails ==
    /\ apc = "model"
    /\ apc' = "done"
    /\ aresult' = CaughtError("model")
    /\ UNCHANGED <<fsenv, agent_context, running_agent, waiting, iter, messages, pending, trace>>
    /\ UNCHANGED <<rvars, mvars, wvars, tvars, gvars>>

\* the model asks for tools once more when the agent graph has used up its
\* steps: process_with_tools passes ainvoke no limit of its own, the agent
\* library's step limit raises, and the except branch returns "Error: ..."
RecursionLimit(maxIter) ==
    /\ apc = "model"
    /\ iter = maxIter
    /\ apc' = "done"
    /\ aresult' = CaughtError("recursion_limit")
    /\ UNCHANGED <<fsenv, agent_context, running_agent, waiting, iter, messages, pending, trace>>
    /\ UNCHANGED <<rvars, mvars, wvars, tvars, gvars>>

\* one wrapped tool call: the guard's check, then the handler unless denied;
\* what the wrapper returns becomes the call's result in the conversation,
\* what it raises ends the invocation in process_with_tools' except branch
ToolCall ==
    /\ apc = "tools"
    /\ pending # << >>
    /\ LET call == Head(pending)
           w    == wrap_tool_call(call)
       IN  /\ trace' = trace
                 \o << [ev |-> "check", call |-> call, allow |-> w.allow,
                         instance |-> agent_context] >>
                 \o (IF w.handled THEN << [ev |-> "exec", call |-> call] >> ELSE << >>)
           /\ IF w.ret.type = "raised"
              THEN /\ apc' = "done"
                   /\ aresult' = CaughtError("tool")
                   /\ pending' = << >>
                   /\ UNCHANGED messages
              ELSE /\ messages' = Append(messages, w.ret)
                   /\ pending' = Tail(pending)
                   /\ apc' = IF Tail(pending) = << >> THEN "model" ELSE "tools"
                   /\ UNCHANGED aresult
    /\ UNCHANGED <<fsenv, agent_context, running_agent, waiting, iter>>
    /\ UNCHANGED <<rvars, mvars, wvars, tvars, gvars>>

\* the local state of the invocation that runs
ActiveInvocation ==
    [apc |-> apc, iter |-> iter, messages |-> messages, pending |-> pending,
     trace |-> trace, aresult |-> aresult, running_agent |-> running_agent]

\* two invocations of process_with_tools on one BaseAgent, in one event
\* loop: at an await (the model call, a tool call, the end of the invocation)
\* the other coroutine goes on.  self.agent_context is the instance's and
\* stays as the last setup_agent left it
Yield ==
    /\ waiting' = ActiveInvocation
    /\ apc' = waiting.apc
    /\ iter' = waiting.iter
    /\ messages' = waiting.messages
    /\ pending' = waiting.pending
    /\ trace' = waiting.trace
    /\ aresult' = waiting.aresult
    /\ running_agent' = waiting.running_agent
    /\ UNCHANGED <<fsenv, agent_context>>
    /\ UNCHANGED <<rvars, mvars, wvars, tvars, gvars>>

(***************************************************************************)
(* BaseAgent.initialize_mcp_servers: the class-level MCP client and tool   *)
(* cache.  The lifespan of the server calls it, and process_with_tools     *)
(* calls it before every setup_agent; a call runs up to its one await,     *)
(* cls._mcp_client.get_tools(), where other callers may enter.             *)
(***************************************************************************)
Callers == {"lifespan", "supervisor", "code_expert", "knowledge_scout"}

\* a call that has not been made
NotCalled ==
    [at |-> "idle", later |-> FALSE, entry_client |-> "None", entry_cache |-> "None",
     exit_client |-> "None", exit_cache |-> "None"]

McpIdle ==
    /\ mcp_client = "None"
    /\ mcp_tools_cache = "None"
    /\ mcp_servers_config = "None"
    /\ init_calls = [c \in Callers |-> NotCalled]

\* the call of c has returned with the class state client, cache
Returned(c, client, cache) ==
    [init_calls EXCEPT ![c].at = "returned",
                       ![c].exit_client = client, ![c].exit_cache = cache]

\* the call of c begins, and the class state it finds
Entered(c) ==
    [init_calls EXCEPT ![c].at = "entered",
                       ![c].later = \E d \in Callers : init_calls[d].at = "returned",
                       ![c].entry_client = mcp_client,
                       ![c].entry_cache = mcp_tools_cache]

\* initialize_mcp_servers from its entry to its await or its return: return
\* at once when the client is set; with no servers configured set the cache
\* to []; else create the client (which may raise: the cache becomes []) and
\* await its tools
initialize_mcp_servers(c, config) ==
    /\ init_calls[c].at = "idle"
    /\ IF mcp_client # "None"
       THEN /\ init_calls' = [Entered(c) EXCEPT ![c].at = "returned",
                                                ![c].exit_client = mcp_client,
                                                ![c].exit_cache = mcp_tools_cache]
            /\ UNCHANGED <<mcp_client, mcp_tools_cache, mcp_servers_config>>
       ELSE /\ mcp_servers_config' = IF config = "None" THEN "empty" ELSE config
            /\ IF mcp_servers_config' = "empty"
               THEN /\ mcp_tools_cache' = "empty"
                    /\ init_calls' = [Entered(c) EXCEPT ![c].at = "returned",
                                                        ![c].exit_client = mcp_client,
                                                        ![c].exit_cache = "empty"]
                    /\ UNCHANGED mcp_client
               ELSE \/ /\ mcp_client' = "client"
                       /\ init_calls' = [Entered(c) EXCEPT ![c].at = "get_tools"]
                       /\ UNCHANGED mcp_tools_cache
                    \/ /\ mcp_tools_cache' = "empty"
                       /\ init_calls' = [Entered(c) EXCEPT ![c].at = "returned",
                                                           ![c].exit_client = mcp_client,
                                                           ![c].exit_cache = "empty"]
                       /\ UNCHANGED mcp_client
    /\ UNCHANGED <<rvars, avars, gvars, wvars, tvars>>

\* a caller enters: the lifespan with the manifests' servers, an agent's
\* process_with_tools with the class's _mcp_servers_config
InitializeMcpServers ==
    \E c \in Callers :
        initialize_mcp_servers(c, IF c = "lifespan" THEN "servers"
                                  ELSE mcp_servers_config)

\* get_tools returned: the cache is the tool list
GetToolsReturn ==
    \E c \in Callers :
        /\ init_calls[c].at = "get_tools"
        /\ mcp_tools_cache' = "tools"
        /\ init_calls' = Returned(c, mcp_client, "tools")
        /\ UNCHANGED <<mcp_client, mcp_servers_config>>
        /\ UNCHANGED <<rvars, avars, gvars, wvars, tvars>>

\* get_tools raised: the except branch sets the cache to []
GetToolsRaise ==
    \E c \in Callers :
        /\ init_calls[c].at = "get_tools"
        /\ mcp_tools_cache' = "empty"
        /\ init_calls' = Returned(c, mcp_client, "empty")
        /\ UNCHANGED <<mcp_client, mcp_servers_config>>
        /\ UNCHANGED <<rvars, avars, gvars, wvars, tvars>>

(***************************************************************************)
(* The workflow stream registry (backend/api/routes/workflow_routes.py).   *)
(***************************************************************************)
ExecutionIds == {"e1", "e2"}
\* the WebSocket objects of the clients that may connect
Clients == {"ws1", "ws2", "ws3"}

NoSocket == [at |-> "idle", id |-> "None"]
NoBroadcast == [id |-> "None", to |-> "None"]

\* active_connections = {}: no id has a socket
StreamIdle ==
    /\ active_connections = [e \in ExecutionIds |-> "None"]
    /\ sockets = [c \in Clients |-> NoSocket]
    /\ last_broadcast = NoBroadcast

\* stream_workflow_updates up to its first receive_text: accept the socket
\* and store it under the execution id, over whatever was stored there
StreamWorkflowUpdates ==
    \E c \in Clients, e \in ExecutionIds :
        /\ sockets[c].at = "idle"
        /\ active_connections' = [active_connections EXCEPT ![e] = c]
        /\ sockets' = [sockets EXCEPT ![c] = [at |-> "receiving", id |-> e]]
        /\ UNCHANGED last_broadcast
        /\ UNCHANGED <<rvars, avars, gvars, mvars, tvars>>

\* the client goes away while its handler waits in receive_text
ClientDisconnects ==
    \E c \in Clients :
        /\ sockets[c].at = "receiving"
        /\ sockets' = [sockets EXCEPT ![c].at = "disconnected"]
        /\ UNCHANGED <<active_connections, last_broadcast>>
        /\ UNCHANGED <<rvars, avars, gvars, mvars, tvars>>

\* receive_text raises in the handler of the client that went away: the
\* finally block pops the execution id, whichever socket is stored under it
ReceiveRaises ==
    \E c \in Clients :
        /\ sockets[c].at = "disconnected"
        /\ active_connections' = [active_connections EXCEPT ![sockets[c].id] = "None"]
        /\ sockets' = [sockets EXCEPT ![c].at = "closed"]
        /\ UNCHANGED last_broadcast
        /\ UNCHANGED <<rvars, avars, gvars, mvars, tvars>>

\* broadcast_to_stream: send to the socket stored under the id, if there is
\* one; a send that raises is logged
BroadcastToStream ==
    \E e \in ExecutionIds :
        /\ last_broadcast' = [id |-> e, to |-> active_connections[e]]
        /\ UNCHANGED <<active_connections, sockets>>
        /\ UNCHANGED <<rvars, avars, gvars, mvars, tvars>>

(***************************************************************************)
(* The parallel team network (agent_network.py).                           *)
(***************************************************************************)
\* self.teams in the order setup_teams inserts them
TeamIds == <<"team_a", "team_b", "team_c">>
TeamSet == { TeamIds[i] : i \in 1..Len(TeamIds) }

team_name(team_id) ==
    CASE team_id = "team_a" -> "Architecture Team"
      [] team_id = "team_b" -> "Implementation Team"
      [] OTHER -> "Documentation Team"

\* self.max_workers = max_workers or 3
DefaultMaxWorkers == 3

\* what a team's chat does: it ends with an output, or a step of it raises
TeamOutcomes ==
    { [raises |-> FALSE, output |-> "out", error |-> "None"] }
        \cup { [raises |-> TRUE, output |-> "", error |-> e] : e \in {"timeout", "refused"} }

\* TeamResult without its duration and its message list
TeamResult(name, success, output, error) ==
    [team_name |-> name, success |-> success, output |-> output, error |-> error]

NoResult == TeamResult("None", FALSE, "", "None")
NoFuture == [kind |-> "pending", value |-> NoResult, exception |-> "None"]
NoOutcome == [raises |-> FALSE, output |-> "", error |-> "None"]

\* execute_team with no except clause: what the chat raises leaves the call
execute_team_uncaught(team_id, outcome) ==
    IF outcome.raises
    THEN [kind |-> "exception", value |-> NoResult, exception |-> outcome.error]
    ELSE [kind |-> "result",
          value |-> TeamResult(team_name(team_id), TRUE, outcome.output, "None"),
          exception |-> "None"]

\* execute_team, as the future of its pool thread: the chat's output in a
\* successful TeamResult, or what the chat raised in a failed one
execute_team(team_id, outcome) ==
    IF outcome.raises
    THEN [kind |-> "result",
          value |-> TeamResult(team_name(team_id), FALSE, "", outcome.error),
          exception |-> "None"]
    ELSE [kind |-> "result",
          value |-> TeamResult(team_name(team_id), TRUE, outcome.output, "None"),
          exception |-> "None"]

NoRun == [at |-> "none", outcome |-> NoOutcome, future |-> NoFuture]

NetworkIdle ==
    /\ network = [pc |-> "idle", max_workers |-> DefaultMaxWorkers,
                  results |-> << >>, finished |-> << >>]
    /\ team_runs = [t \in TeamSet |-> NoRun]

\* the network is built with a max_workers argument (0 for none given) and
\* execute_parallel submits execute_team for every team, in team order
ExecuteParallel ==
    \E w \in 0..DefaultMaxWorkers :
        /\ network.pc = "idle"
        /\ network' = [network EXCEPT !.pc = "gather",
                          !.max_workers = IF w = 0 THEN DefaultMaxWorkers ELSE w]
        /\ team_runs' = [t \in TeamSet |-> [NoRun EXCEPT !.at = "queued"]]
        /\ UNCHANGED <<rvars, avars, gvars, mvars, wvars>>

Position(team_id) == CHOOSE i \in 1..Len(TeamIds) : TeamIds[i] = team_id

\* a free pool thread takes the oldest queued call
WorkerTakes ==
    \E t \in TeamSet :
        /\ team_runs[t].at = "queued"
        /\ \A u \in TeamSet : Position(u) < Position(t) => team_runs[u].at # "queued"
        /\ Cardinality({ u \in TeamSet : team_runs[u].at = "running" })
              < network.max_workers
        /\ team_runs' = [team_runs EXCEPT ![t].at = "running"]
        /\ UNCHANGED network
        /\ UNCHANGED <<rvars, avars, gvars, mvars, wvars>>

\* a team's execute_team ends in its thread
ExecuteTeam ==
    \E t \in TeamSet, outcome \in TeamOutcomes :
        /\ team_runs[t].at = "running"
        /\ team_runs' = [team_runs EXCEPT ![t] = [at |-> "done", outcome |-> outcome,
                                                  future |-> execute_team(t, outcome)]]
        /\ network' = [network EXCEPT !.finished = Append(@, t)]
        /\ UNCHANGED <<rvars, avars, gvars, mvars, wvars>>

\* asyncio.gather and the exit of the pool's with block, once every thread
\* has ended: the futures' values in the order of the futures, or the
\* exception of a future that holds one
Gather ==
    /\ network.pc = "gather"
    /\ \A t \in TeamSet : team_runs[t].at = "done"
    /\ IF \E t \in TeamSet : team_runs[t].future.kind = "exception"
       THEN network' = [network EXCEPT !.pc = "raised"]
       ELSE network' = [network EXCEPT
                           !.pc = "returned",
                           !.results = [i \in 1..Len(TeamIds) |->
                                           team_runs[TeamIds[i]].future.value]]
    /\ UNCHANGED team_runs
    /\ UNCHANGED <<rvars, avars, gvars, mvars, wvars>>

(***************************************************************************)
(* The orchestration graph (ai_agent_runtime/orchestrator.py).             *)
(***************************************************************************)
ClassificationTokens == {"CODE_TASK", "RESEARCH_TASK", "HYBRID_TASK"}
\* what may follow "CLASSIFICATION:" on a line: a token of the three or another word
Tokens == ClassificationTokens \cup {"OTHER_TASK"}

\* a line of the classifier's response: whether it holds "CLASSIFICATION:",
\* and the whitespace-separated words after it
Lines ==
    { [tag |-> FALSE, words |-> << >>], [tag |-> TRUE, words |-> << >>] }
        \cup { [tag |-> TRUE, words |-> << t >>] : t \in Tokens }
\* a response has at least one line: content.split("\n") is never empty
Responses == SeqsUpTo(Lines, MaxLines) \ { << >> }

\* SupervisorAgent._parse_classification: the first word after the tag of the
\* first tagged line that has one, whatever the word; "CODE_TASK" when no
\* line gives one
RECURSIVE parse_classification(_)
parse_classification(response) ==
    IF response = << >> THEN "CODE_TASK"
    ELSE LET line == Head(response)
         IN  IF line.tag /\ line.words # << >>
             THEN line.words[1]
             ELSE parse_classification(Tail(response))

\* OrchestratorState(query=query, context=context)
InitialState(query, context) ==
    [query |-> query, context |-> context, classification |-> "None",
     code_expert_result |-> "", knowledge_result |-> "",
     final_response |-> << >>, tools_used |-> << >>,
     execution_path |-> << >>, errors |-> << >>]

\* route_after_classification
route_after_classification(st) ==
    LET classification ==
            IF st.classification = "None" THEN "CODE_TASK" ELSE st.classification
    IN  IF classification = "HYBRID_TASK" THEN "hybrid"
        ELSE IF classification = "RESEARCH_TASK" THEN "research"
        ELSE "code"

\* a graph that starts at the code expert
EntryAtCodeExpert == "code_expert"

\* build_graph: add_edge(START, "classify")
EntryPoint == "classify"

\* build_graph: the conditional edges out of classify, and the plain edges
EdgeFrom(node, st) ==
    CASE node = "classify" ->
            LET r == route_after_classification(st)
            IN  IF r = "code" THEN "code_expert"
                ELSE IF r = "research" THEN "knowledge_scout"
                ELSE "code_expert"
      [] node = "code_expert"     -> "compose"
      [] node = "knowledge_scout" -> "compose"
      [] node = "compose"         -> "END"

\* every enumeration of a set: list(set(...)) and ', '.join(set(...))
Orderings(S) == { s \in [1..Cardinality(S) -> S] : Range(s) = S }

\* a composition that puts the explanation first and has no fallback text
ComposeTextExplanationFirst(st, tools) ==
    IF st.code_expert_result # "" /\ st.knowledge_result # ""
    THEN << "**CONTEXT & EXPLANATION:**", st.knowledge_result, "---",
            "**CODE SOLUTION:**", st.code_expert_result >>
    ELSE IF st.code_expert_result # "" THEN << st.code_expert_result >>
    ELSE IF st.knowledge_result # "" THEN << st.knowledge_result >>
    ELSE << >>

\* compose_response's final_response, as a sequence of text pieces
ComposeText(st, tools) ==
    IF st.code_expert_result # "" /\ st.knowledge_result # ""
    THEN << "**CODE SOLUTION:**", st.code_expert_result, "---",
            "**CONTEXT & EXPLANATION:**", st.knowledge_result, "---",
            "**Metadata:**", "- Classification: ", st.classification,
            "- Tools used: " >>
         \o (IF tools = << >> THEN << "none" >> ELSE tools)
         \o << "- Execution path: " >> \o st.execution_path
    ELSE IF st.code_expert_result # "" THEN << st.code_expert_result >>
    ELSE IF st.knowledge_result # "" THEN << st.knowledge_result >>
    ELSE << "Unable to generate response. Please try again." >>

Started(n) == [n |-> n, ev |-> "start"]
Ended(n)   == [n |-> n, ev |-> "end"]

AgentKeys == {"supervisor", "code_expert", "knowledge_scout"}
Queries == {"fix this null pointer bug", "implement and explain a cache"}
\* what an agent reports as tools_used, and what a specialist answers;
ToolLists == { << >>, <<"filesystem">>, <<"git">> }
\* the last is what process_with_tools returns when it caught an exception
Contents == {"", "content", "Error: model call failed"}

\* what a run's nodes have written before any of them ran: the defaults of
\* OrchestratorState's fields
NothingWritten ==
    [classification |-> "None", code_expert_result |-> "", knowledge_result |-> "",
     tools_used |-> << >>, execution_path |-> << >>, errors |-> << >>]

\* what a node wrote, added to the run's writes so far: the node's wrapper
\* got the state old and returned the state new
Log(w, old, new) ==
    LET Added(f) == SubSeq(new[f], Len(old[f]) + 1, Len(new[f]))
        Set(f) == IF new[f] # old[f] THEN new[f] ELSE w[f]
    IN  [classification     |-> Set("classification"),
         code_expert_result |-> Set("code_expert_result"),
         knowledge_result   |-> Set("knowledge_result"),
         tools_used         |-> w.tools_used \o Added("tools_used"),
         execution_path     |-> w.execution_path \o Added("execution_path"),
         errors             |-> w.errors \o Added("errors")]

\* a run that execute() has not been called for
IdleRequest ==
    [gnode |-> "idle", gphase |-> "enter", state |-> InitialState("", "shell"),
     supervisor_output |-> << >>, events |-> << >>, result |-> [kind |-> "none"],
     written |-> NothingWritten]

GraphIdle ==
    /\ agents \in SUBSET AgentKeys
    /\ gnode = "idle"
    /\ gphase = "enter"
    /\ state = InitialState("", "shell")
    /\ supervisor_output = << >>
    /\ events = << >>
    /\ result = [kind |-> "none"]
    /\ parked = IdleRequest
    /\ written = NothingWritten

\* execute(): build the initial state and the graph, start at the entry point
Execute ==
    /\ gnode = "idle"
    /\ \E q \in Queries : state' = InitialState(q, "shell")
    /\ gnode' = EntryPoint
    /\ gphase' = "enter"
    /\ UNCHANGED <<agents, supervisor_output, events, result>>
    /\ UNCHANGED <<rvars, mvars, wvars, tvars, avars, parked, written>>

\* classify_task without a supervisor: record the error and return
ClassifyNoSupervisor ==
    /\ gnode = "classify" /\ gphase = "enter"
    /\ "supervisor" \notin agents
    /\ state' = [state EXCEPT
                    !.errors = Append(@, "Supervisor agent not available"),
                    !.execution_path = Append(@, "classify_task (failed)")]
    /\ events' = events \o << Started("classify"), Ended("classify") >>
    /\ gnode' = EdgeFrom("classify", state')
    /\ UNCHANGED <<agents, gphase, supervisor_output, result>>
    /\ written' = Log(written, state, state')
    /\ UNCHANGED <<rvars, mvars, wvars, tvars, avars, parked>>

\* classify_task up to "await supervisor.process(...)"
ClassifyBegin ==
    /\ gnode = "classify" /\ gphase = "enter"
    /\ "supervisor" \in agents
    /\ gphase' = "await"
    /\ events' = Append(events, Started("classify"))
    /\ UNCHANGED <<agents, gnode, state, supervisor_output, result>>
    /\ UNCHANGED <<rvars, mvars, wvars, tvars, avars, parked, written>>

\* supervisor.process returned: take the classification of its metadata
ClassifyReturn ==
    /\ gnode = "classify" /\ gphase = "await"
    /\ \E response \in Responses, tools \in ToolLists :
          /\ supervisor_output' = response
          /\ state' = [state EXCEPT
                          !.classification = parse_classification(response),
                          !.tools_used = @ \o tools,
                          !.execution_path = Append(@, "classify_task")]
    /\ events' = Append(events, Ended("classify"))
    /\ gnode' = EdgeFrom("classify", state')
    /\ gphase' = "enter"
    /\ UNCHANGED <<agents, result>>
    /\ written' = Log(written, state, state')
    /\ UNCHANGED <<rvars, mvars, wvars, tvars, avars, parked>>

\* supervisor.process raised: record the error, fall back to CODE_TASK
ClassifyRaise ==
    /\ gnode = "classify" /\ gphase = "await"
    /\ state' = [state EXCEPT
                    !.errors = Append(@, "Classification error"),
                    !.classification = "CODE_TASK"]
    /\ events' = Append(events, Ended("classify"))
    /\ gnode' = EdgeFrom("classify", state')
    /\ gphase' = "enter"
    /\ UNCHANGED <<agents, supervisor_output, result>>
    /\ written' = Log(written, state, state')
    /\ UNCHANGED <<rvars, mvars, wvars, tvars, avars, parked>>

\* execute_code_expert / execute_knowledge_scout without the agent: the state
\* is returned as it came
SpecialistMissing(n) ==
    /\ gnode = n /\ gphase = "enter"
    /\ n \notin agents
    /\ events' = events \o << Started(n), Ended(n) >>
    /\ gnode' = EdgeFrom(n, state)
    /\ UNCHANGED <<agents, gphase, state, supervisor_output, result>>
    /\ UNCHANGED <<rvars, mvars, wvars, tvars, avars, parked, written>>

\* the specialist node up to "await agent.process(...)"
SpecialistBegin(n) ==
    /\ gnode = n /\ gphase = "enter"
    /\ n \in agents
    /\ gphase' = "await"
    /\ events' = Append(events, Started(n))
    /\ UNCHANGED <<agents, gnode, state, supervisor_output, result>>
    /\ UNCHANGED <<rvars, mvars, wvars, tvars, avars, parked, written>>

\* agent.process returned: keep its content and tools, extend the path
SpecialistReturn(n) ==
    /\ gnode = n /\ gphase = "await"
    /\ \E content \in Contents, tools \in ToolLists :
          state' = [state EXCEPT
                       !.code_expert_result =
                            IF n = "code_expert" THEN content ELSE @,
                       !.knowledge_result =
                            IF n = "knowledge_scout" THEN content ELSE @,
                       !.tools_used = @ \o tools,
                       !.execution_path = Append(@, n)]
    /\ events' = Append(events, Ended(n))
    /\ gnode' = EdgeFrom(n, state')
    /\ gphase' = "enter"
    /\ UNCHANGED <<agents, supervisor_output, result>>
    /\ written' = Log(written, state, state')
    /\ UNCHANGED <<rvars, mvars, wvars, tvars, avars, parked>>

\* agent.process raised: record the error only
SpecialistRaise(n) ==
    /\ gnode = n /\ gphase = "await"
    /\ state' = [state EXCEPT
                    !.errors = Append(@, IF n = "code_expert"
                                         THEN "Code expert error"
                                         ELSE "Knowledge scout error")]
    /\ events' = Append(events, Ended(n))
    /\ gnode' = EdgeFrom(n, state')
    /\ gphase' = "enter"
    /\ UNCHANGED <<agents, supervisor_output, result>>
    /\ written' = Log(written, state, state')
    /\ UNCHANGED <<rvars, mvars, wvars, tvars, avars, parked>>

CodeExpertMissing == SpecialistMissing("code_expert")
CodeExpertBegin   == SpecialistBegin("code_expert")
CodeExpertReturn  == SpecialistReturn("code_expert")
CodeExpertRaise   == SpecialistRaise("code_expert")
KnowledgeScoutMissing == SpecialistMissing("knowledge_scout")
KnowledgeScoutBegin   == SpecialistBegin("knowledge_scout")
KnowledgeScoutReturn  == SpecialistReturn("knowledge_scout")
KnowledgeScoutRaise   == SpecialistRaise("knowledge_scout")

\* a compose stage that also replaces the tools-used list by its distinct
\* names
ComposeDeduplicatingTools ==
    /\ gnode = "compose"
    /\ \E tools \in Orderings(Range(state.tools_used)) :
          state' = [state EXCEPT
                       !.final_response = ComposeText(state, tools),
                       !.tools_used = tools,
                       !.execution_path = Append(@, "compose_response")]
    /\ events' = events \o << Started("compose"), Ended("compose") >>
    /\ gnode' = EdgeFrom("compose", state')
    /\ written' = Log(written, state, state')
    /\ UNCHANGED <<agents, gphase, supervisor_output, result>>
    /\ UNCHANGED <<rvars, mvars, wvars, tvars, avars, parked>>

\* compose_response
Compose ==
    /\ gnode = "compose"
    /\ \E tools \in Orderings(Range(state.tools_used)) :
          state' = [state EXCEPT
                       !.final_response = ComposeText(state, tools),
                       !.execution_path = Append(@, "compose_response")]
    /\ events' = events \o << Started("compose"), Ended("compose") >>
    /\ gnode' = EdgeFrom("compose", state')
    /\ UNCHANGED <<agents, gphase, supervisor_output, result>>
    /\ written' = Log(written, state, state')
    /\ UNCHANGED <<rvars, mvars, wvars, tvars, avars, parked>>

\* execute(): graph.invoke returned the final state; build the response dict
Return ==
    /\ gnode = "END"
    /\ \E tools \in Orderings(Range(state.tools_used)) :
          result' = [kind |-> "response",
                     query |-> state.query,
                     context |-> state.context,
                     response |-> state.final_response,
                     classification |-> state.classification,
                     tools_used |-> tools,
                     execution_path |-> state.execution_path,
                     errors |-> state.errors]
    /\ gnode' = "returned"
    /\ UNCHANGED <<agents, gphase, state, supervisor_output, events>>
    /\ UNCHANGED <<rvars, mvars, wvars, tvars, avars, parked, written>>

\* the record of the run that has the thread
ActiveRequest ==
    [gnode |-> gnode, gphase |-> gphase, state |-> state,
     supervisor_output |-> supervisor_output, events |-> events,
     result |-> result, written |-> written]

\* a change of thread in which the three lists of the state stay where they
\* are: one tools_used, one execution_path and one errors list for all runs
SwitchSharingLists ==
    /\ parked' = ActiveRequest
    /\ gnode' = parked.gnode
    /\ gphase' = parked.gphase
    /\ state' = [parked.state EXCEPT !.tools_used = state.tools_used,
                                     !.execution_path = state.execution_path,
                                     !.errors = state.errors]
    /\ supervisor_output' = parked.supervisor_output
    /\ events' = parked.events
    /\ result' = parked.result
    /\ written' = parked.written
    /\ UNCHANGED agents
    /\ UNCHANGED <<rvars, mvars, wvars, tvars, avars>>

\* two calls of execute() in flight: each has its own initial_state and its
\* own graph, and runs graph.invoke on an executor thread of its own; the
\* thread of the other run takes over, at any point
Switch ==
    /\ parked' = ActiveRequest
    /\ gnode' = parked.gnode
    /\ gphase' = parked.gphase
    /\ state' = parked.state
    /\ supervisor_output' = parked.supervisor_output
    /\ events' = parked.events
    /\ result' = parked.result
    /\ written' = parked.written
    /\ UNCHANGED agents
    /\ UNCHANGED <<rvars, mvars, wvars, tvars, avars>>

(***************************************************************************)
(* The agent-server orchestration graph (agent-server/orchestrator.py).    *)
(* Its nodes call the models and the tool registry with no try/except, and *)
(* neither does its execute(): what a node raises leaves graph.invoke and  *)
(* execute() with it.  The graph's nodes "classify_task" and               *)
(* "compose_response" go by the names "classify" and "compose" here.       *)
(***************************************************************************)
\* classify_task's loop over the lines: each tagged line whose first word is
\* a TaskClassification value replaces the classification, any other line
\* leaves it; it starts as CODE_TASK
RECURSIVE srv_parse_classification(_, _)
srv_parse_classification(response, classification) ==
    IF response = << >> THEN classification
    ELSE LET line == Head(response)
         IN  srv_parse_classification(
                 Tail(response),
                 IF line.tag /\ line.words # << >>
                       /\ line.words[1] \in ClassificationTokens
                 THEN line.words[1]
                 ELSE classification)

\* route_execution
route_execution(st) ==
    IF st.classification = "CODE_TASK" THEN "code_only"
    ELSE IF st.classification = "RESEARCH_TASK" THEN "research_only"
    ELSE IF st.classification = "HYBRID_TASK" THEN "hybrid"
    ELSE "end"

\* build_graph: the conditional edges out of classify_task, and the plain edges
SrvEdgeFrom(node, st) ==
    CASE node = "classify" ->
            LET r == route_execution(st)
            IN  IF r = "code_only" THEN "code_expert"
                ELSE IF r = "research_only" THEN "knowledge_scout"
                ELSE IF r = "hybrid" THEN "code_expert"
                ELSE "compose"
      [] node = "code_expert"     -> "compose"
      [] node = "knowledge_scout" -> "compose"
      [] node = "compose"         -> "END"

\* compose_response's final_response, as a sequence of text pieces
SrvComposeText(st, tools) ==
    IF st.code_expert_result # "" /\ st.knowledge_result # ""
    THEN << "Based on your query, I've provided both code solutions and context:",
            "**CODE SOLUTION:**", st.code_expert_result,
            "**CONTEXT & EXPLANATION:**", st.knowledge_result, "---",
            "Classification: ", st.classification, "Tools used: " >>
         \o tools \o << "Execution path: " >> \o st.execution_path
    ELSE IF st.code_expert_result # "" THEN << st.code_expert_result >>
    ELSE IF st.knowledge_result # "" THEN << st.knowledge_result >>
    ELSE << "No response generated" >>

\* the tool requirements a pipeline manifest may carry
ServerManifests ==
    { [required |-> <<"filesystem">>, optional |-> <<"git", "lsp">>, mode |-> "degrade"],
      [required |-> <<"lsp", "filesystem">>, optional |-> <<"git">>, mode |-> "fail"],
      [required |-> <<"lsp">>, optional |-> << >>, mode |-> "degrade"] }

\* execute(): build the initial state and the graph, start at classify_task
SrvExecute ==
    /\ gnode = "idle"
    /\ \E q \in Queries, c \in Contexts : state' = InitialState(q, c)
    /\ gnode' = "classify"
    /\ gphase' = "enter"
    /\ UNCHANGED <<agents, supervisor_output, events, result>>
    /\ UNCHANGED <<rvars, mvars, wvars, tvars, avars, parked, written>>

\* classify_task: the supervisor answered
SrvClassify ==
    /\ gnode = "classify"
    /\ \E response \in Responses :
          /\ supervisor_output' = response
          /\ state' = [state EXCEPT
                          !.classification =
                               srv_parse_classification(response, "CODE_TASK"),
                          !.execution_path = Append(@, "classify_task")]
    /\ events' = events \o << Started("classify"), Ended("classify") >>
    /\ gnode' = SrvEdgeFrom("classify", state')
    /\ UNCHANGED <<agents, gphase, result>>
    /\ UNCHANGED <<rvars, mvars, wvars, tvars, avars, parked, written>>

\* a node raised (the model call, or resolve_tools under fail): the
\* exception leaves graph.invoke and execute()
SrvAbort(n) ==
    /\ events' = events \o << Started(n), [n |-> n, ev |-> "raised"] >>
    /\ gnode' = "aborted"
    /\ result' = [kind |-> "raised"]
    /\ UNCHANGED <<agents, gphase, state, supervisor_output>>
    /\ UNCHANGED <<mvars, wvars, tvars, avars, parked, written>>

\* classify_task: chain.invoke raised
SrvClassifyRaise ==
    /\ gnode = "classify"
    /\ SrvAbort("classify")
    /\ UNCHANGED rvars

\* execute_code_expert / execute_knowledge_scout up to the model call:
\* resolve the manifest's tools for the request's context
SrvSpecialistResolve(n) ==
    /\ gnode = n /\ gphase = "enter"
    /\ \E m \in ServerManifests :
          LET out == ctx_resolve_tools(m.required, m.optional, state.context, m.mode)
          IN  /\ rcall' = [impl |-> "server", required |-> m.required,
                           optional |-> m.optional, context |-> state.context,
                           mode |-> m.mode]
              /\ rout' = out
              /\ IF out.kind = "raised"
                 THEN SrvAbort(n)
                 ELSE /\ gphase' = "await"
                      /\ events' = Append(events, Started(n))
                      /\ UNCHANGED <<agents, gnode, state, supervisor_output, result>>
                      /\ UNCHANGED <<mvars, wvars, tvars, avars, parked, written>>

\* the specialist's model answered: keep its content, the resolved tools
\* and the node's name
SrvSpecialistReturn(n) ==
    /\ gnode = n /\ gphase = "await"
    /\ \E content \in Contents :
          state' = [state EXCEPT
                       !.code_expert_result =
                            IF n = "code_expert" THEN content ELSE @,
                       !.knowledge_result =
                            IF n = "knowledge_scout" THEN content ELSE @,
                       !.tools_used = @ \o rout.resolved,
                       !.execution_path = Append(@, n)]
    /\ events' = Append(events, Ended(n))
    /\ gnode' = SrvEdgeFrom(n, state')
    /\ gphase' = "enter"
    /\ UNCHANGED <<agents, supervisor_output, result>>
    /\ UNCHANGED <<rvars, mvars, wvars, tvars, avars, parked, written>>

\* the specialist's chain.invoke raised
SrvSpecialistRaise(n) ==
    /\ gnode = n /\ gphase = "await"
    /\ events' = events \o << [n |-> n, ev |-> "raised"] >>
    /\ gnode' = "aborted"
    /\ gphase' = "enter"
    /\ result' = [kind |-> "raised"]
    /\ UNCHANGED <<agents, state, supervisor_output>>
    /\ UNCHANGED <<rvars, mvars, wvars, tvars, avars, parked, written>>

SrvCodeExpertResolve == SrvSpecialistResolve("code_expert")
SrvCodeExpertReturn  == SrvSpecialistReturn("code_expert")
SrvCodeExpertRaise   == SrvSpecialistRaise("code_expert")
SrvKnowledgeScoutResolve == SrvSpecialistResolve("knowledge_scout")
SrvKnowledgeScoutReturn  == SrvSpecialistReturn("knowledge_scout")
SrvKnowledgeScoutRaise   == SrvSpecialistRaise("knowledge_scout")

\* compose_response
SrvCompose ==
    /\ gnode = "compose"
    /\ \E tools \in Orderings(Range(state.tools_used)) :
          state' = [state EXCEPT
                       !.final_response = SrvComposeText(state, tools),
                       !.execution_path = Append(@, "compose_response")]
    /\ events' = events \o << Started("compose"), Ended("compose") >>
    /\ gnode' = SrvEdgeFrom("compose", state')
    /\ UNCHANGED <<agents, gphase, supervisor_output, result>>
    /\ UNCHANGED <<rvars, mvars, wvars, tvars, avars, parked, written>>

\* execute(): graph.invoke returned; the dict has no "errors" key
SrvReturn ==
    /\ gnode = "END"
    /\ result' = [kind |-> "response",
                  query |-> state.query,
                  context |-> state.context,
                  response |-> state.final_response,
                  classification |-> state.classification,
                  tools_used |-> state.tools_used,
                  execution_path |-> state.execution_path]
    /\ gnode' = "returned"
    /\ UNCHANGED <<agents, gphase, state, supervisor_output, events>>
    /\ UNCHANGED <<rvars, mvars, wvars, tvars, avars, parked, written>>

(***************************************************************************)
(* The legacy orchestrator's compose (legacy/.../orchestrator.py).  Its    *)
(* state starts with classification "" and its stage is named "compose".   *)
(***************************************************************************)
\* _compose_response's finalresponse: the parts that are present, in order,
\* each under its heading; the fallback sentence when there is none
LegacyComposeText(st, reasoning) ==
    LET response_parts ==
            (IF st.classification # ""
             THEN << "**Classification**: ", st.classification >> ELSE << >>)
         \o (IF reasoning # "" THEN << "**Reasoning**: ", reasoning >> ELSE << >>)
         \o (IF st.code_expert_result # ""
             THEN << "**Code Solution**:", st.code_expert_result >> ELSE << >>)
         \o (IF st.knowledge_result # ""
             THEN << "**Knowledge**:", st.knowledge_result >> ELSE << >>)
         \o (IF st.errors # << >> THEN << "**Errors**: " >> \o st.errors ELSE << >>)
    IN  IF response_parts # << >> THEN response_parts
        ELSE << "No response generated." >>

\* _compose_response
LegacyCompose ==
    /\ gnode = "compose"
    /\ \E reasoning \in {"", "reasoning"} :
          state' = [state EXCEPT
                       !.final_response = LegacyComposeText(state, reasoning),
                       !.execution_path = Append(@, "compose")]
    /\ events' = events \o << Started("compose"), Ended("compose") >>
    /\ gnode' = "END"
    /\ UNCHANGED <<agents, gphase, supervisor_output, result>>
    /\ UNCHANGED <<rvars, mvars, wvars, tvars, avars, parked, written>>

\* execute(): graph.ainvoke returned; the final state itself is the result
LegacyReturn ==
    /\ gnode = "END"
    /\ result' = [kind |-> "response",
                  query |-> state.query,
                  context |-> state.context,
                  response |-> state.final_response,
                  classification |-> state.classification,
                  tools_used |-> state.tools_used,
                  execution_path |-> state.execution_path,
                  errors |-> state.errors]
    /\ gnode' = "returned"
    /\ UNCHANGED <<agents, gphase, state, supervisor_output, events>>
    /\ UNCHANGED <<rvars, mvars, wvars, tvars, avars, parked, written>>

(***************************************************************************)
(* Resolver actions: one call at a time, inputs drawn from bounded sets.   *)
(***************************************************************************)
ResolverIdle ==
    /\ rcall = NoCall
    /\ rout = NoOut

\* MCPRegistry.resolve_tools(required, optional, context, fallback_mode)
ResolveTools ==
    /\ rcall = NoCall
    /\ \E required \in SeqsUpTo(InputNames, MaxListLen),
          optional \in SeqsUpTo(InputNames, MaxListLen),
          context \in Contexts, mode \in FallbackModes :
        /\ rcall' = [impl |-> "registry", required |-> required,
                     optional |-> optional, context |-> context, mode |-> mode]
        /\ rout' = resolve_tools(required, optional, context, mode)
        /\ UNCHANGED <<mvars, wvars, tvars, avars, gvars>>

\* ContextAwareMCPRegistry.resolve_tools(manifest, context)
CtxResolveTools ==
    /\ rcall = NoCall
    /\ \E required \in SeqsUpTo(InputNames, MaxListLen),
          optional \in SeqsUpTo(InputNames, MaxListLen),
          context \in Contexts, mode \in FallbackModes :
        /\ rcall' = [impl |-> "server", required |-> required,
                     optional |-> optional, context |-> context, mode |-> mode]
        /\ rout' = ctx_resolve_tools(required, optional, context, mode)
        /\ UNCHANGED <<mvars, wvars, tvars, avars, gvars>>

\* setup_agent(context): select the agent's tools from the cache
SetupAgent ==
    /\ rcall = NoCall
    /\ \E required \in SeqsUpTo(InputNames, MaxListLen),
          optional \in SeqsUpTo(InputNames, MaxListLen),
          cache \in Caches :
        /\ rcall' = [impl |-> "setup_agent", required |-> required,
                     optional |-> optional, context |-> "shell",
                     mode |-> "none", cache |-> cache]
        /\ rout' = [kind |-> "returned",
                    resolved |-> setup_agent_tools(cache, required, optional)]
        /\ UNCHANGED <<mvars, wvars, tvars, avars, gvars>>

\* the caller takes the result; the registry keeps nothing of the call
ResolveDone ==
    /\ rcall # NoCall
    /\ rcall' = NoCall
    /\ rout' = NoOut
    /\ UNCHANGED <<mvars, wvars, tvars, avars, gvars>>

ResolveNext == ResolveTools \/ CtxResolveTools \/ SetupAgent \/ ResolveDone

\* the guard on single calls, inputs wide
GuardNext ==
    \/ ProcessWithTools(WorkingDirs)
    \/ ModelCall(GuardCalls, 1, 1)
    \/ ToolCall

\* the tool loop over several iterations, inputs narrow
LoopNext ==
    \/ ProcessWithTools({ AbsPath(<<"proj">>), AbsPath(<<"etc", "proj">>) })
    \/ ModelCall(LoopCalls, MaxIter, MaxCallsPerMsg)
    \/ ModelCallFails
    \/ ToolCall

Init ==
    ResolverIdle /\ AgentIdle /\ GraphIdle /\ McpIdle /\ StreamIdle /\ NetworkIdle

\* the resolver reads no filesystem: one environment is enough
ResolveInit ==
    Init /\ fsenv = [link |-> <<"etc">>, cwd |-> HOME] /\ agents = AgentKeys

ResolveSpec == ResolveInit /\ [][ResolveNext]_vars
\* the guard runs in no orchestrator: one set of agents is enough
GuardInit == Init /\ agents = AgentKeys

GuardSpec == GuardInit /\ [][GuardNext]_vars

\* the context alone: every working directory string, one tool round
ContextNext ==
    \/ ProcessWithTools(ContextDirs)
    \/ ModelCall(LoopCalls, 1, 1)
    \/ ToolCall

ContextSpec == GuardInit /\ [][ContextNext]_vars

\* the loop's calls are absolute paths outside the link: one environment
LoopInit ==
    Init /\ fsenv = [link |-> <<"etc">>, cwd |-> HOME] /\ agents = AgentKeys

LoopSpec == LoopInit /\ [][LoopNext]_vars

\* two invocations on one agent instance, one tool round each
SharedAgentNext ==
    \/ ProcessWithTools(WorkingDirs)
    \/ ModelCall(LoopCalls, 1, 1)
    \/ ToolCall
    \/ Yield

SharedAgentSpec == LoopInit /\ [][SharedAgentNext]_vars

GraphInit == Init /\ fsenv = [link |-> <<"etc">>, cwd |-> HOME]

Next ==
    \/ Execute
    \/ ClassifyNoSupervisor
    \/ ClassifyBegin
    \/ ClassifyReturn
    \/ ClassifyRaise
    \/ CodeExpertMissing
    \/ CodeExpertBegin
    \/ CodeExpertReturn
    \/ CodeExpertRaise
    \/ KnowledgeScoutMissing
    \/ KnowledgeScoutBegin
    \/ KnowledgeScoutReturn
    \/ KnowledgeScoutRaise
    \/ Compose
    \/ Return

Spec == GraphInit /\ [][Next]_vars

ServerInit ==
    Init /\ fsenv = [link |-> <<"etc">>, cwd |-> HOME] /\ agents = AgentKeys

ServerNext ==
    \/ SrvExecute
    \/ SrvClassify
    \/ SrvClassifyRaise
    \/ SrvCodeExpertResolve
    \/ SrvCodeExpertReturn
    \/ SrvCodeExpertRaise
    \/ SrvKnowledgeScoutResolve
    \/ SrvKnowledgeScoutReturn
    \/ SrvKnowledgeScoutRaise
    \/ SrvCompose
    \/ SrvReturn

ServerSpec == ServerInit /\ [][ServerNext]_vars

\* the loop with the step limit of the agent library
CapNext == LoopNext \/ RecursionLimit(MaxIter)

CapSpec == LoopInit /\ [][CapNext]_vars

\* what the orchestrator does by itself is done eventually; nothing makes an
\* awaited agent answer or raise: execute() and process_with_tools set no
\* timeout
GraphFairness ==
    /\ WF_vars(Execute)
    /\ WF_vars(ClassifyNoSupervisor \/ ClassifyBegin)
    /\ WF_vars(CodeExpertMissing \/ CodeExpertBegin)
    /\ WF_vars(KnowledgeScoutMissing \/ KnowledgeScoutBegin)
    /\ WF_vars(Compose)
    /\ WF_vars(Return)

LiveSpec == GraphInit /\ [][Next]_vars /\ GraphFairness

\* two runs of one orchestrator with every agent, interleaved at every step.
\* The values tried are narrow: a classifier response of one line holding
\* CODE_TASK or RESEARCH_TASK, one tool name, one content
ConcurrentValues ==
    /\ supervisor_output \in
          { << >> } \cup { << [tag |-> TRUE, words |-> << t >>] >> :
                             t \in {"CODE_TASK", "RESEARCH_TASK"} }
    /\ Range(state.tools_used) \subseteq {"git"}
    /\ state.code_expert_result \in {"", "content"}
    /\ state.knowledge_result \in {"", "content"}

ConcurrentInit == GraphInit /\ agents = AgentKeys

ConcurrentNext ==
    \/ Execute /\ ConcurrentValues'
    \/ ClassifyBegin /\ ConcurrentValues'
    \/ ClassifyReturn /\ ConcurrentValues'
    \/ ClassifyRaise /\ ConcurrentValues'
    \/ CodeExpertBegin /\ ConcurrentValues'
    \/ CodeExpertReturn /\ ConcurrentValues'
    \/ CodeExpertRaise /\ ConcurrentValues'
    \/ KnowledgeScoutBegin /\ ConcurrentValues'
    \/ KnowledgeScoutReturn /\ ConcurrentValues'
    \/ KnowledgeScoutRaise /\ ConcurrentValues'
    \/ Compose /\ ConcurrentValues'
    \/ Return /\ ConcurrentValues'
    \/ Switch

ConcurrentSpec == ConcurrentInit /\ [][ConcurrentNext]_vars

\* the callers of initialize_mcp_servers, in every order
McpNext ==
    \/ InitializeMcpServers
    \/ GetToolsReturn
    \/ GetToolsRaise

McpSpec == LoopInit /\ [][McpNext]_vars

\* the stream registry alone: three clients over two execution ids
StreamNext ==
    \/ StreamWorkflowUpdates
    \/ ClientDisconnects
    \/ ReceiveRaises
    \/ BroadcastToStream

StreamSpec == LoopInit /\ [][StreamNext]_vars

\* the team network alone: one execute_parallel over the three teams
NetworkNext ==
    \/ ExecuteParallel
    \/ WorkerTakes
    \/ ExecuteTeam
    \/ Gather

NetworkSpec == LoopInit /\ [][NetworkNext]_vars

\* compose_response as a function: any state a run may hand it arrives at
\* the compose node
ComposeStates ==
    { [InitialState(q, "shell") EXCEPT
          !.classification = c, !.code_expert_result = code,
          !.knowledge_result = knowledge, !.tools_used = tools,
          !.execution_path = <<"classify_task">>] :
        q \in Queries, c \in Tokens \cup {"None"}, code \in Contents,
        knowledge \in Contents, tools \in SeqsUpTo({"filesystem", "git"}, MaxListLen) }

ComposeInit ==
    /\ ResolverIdle
    /\ AgentIdle
    /\ McpIdle
    /\ StreamIdle
    /\ NetworkIdle
    /\ fsenv = [link |-> <<"etc">>, cwd |-> HOME]
    /\ agents = AgentKeys
    /\ gnode = "compose"
    /\ gphase = "enter"
    /\ state \in ComposeStates
    /\ supervisor_output = << >>
    /\ events = << >>
    /\ result = [kind |-> "none"]
    /\ parked = IdleRequest
    /\ written = NothingWritten

ComposeNext == Compose \/ Return

ComposeSpec == ComposeInit /\ [][ComposeNext]_vars

\* the legacy compose as a function of the state a run hands it
LegacyComposeStates ==
    { [InitialState(q, "shell") EXCEPT
          !.classification = c, !.code_expert_result = code,
          !.knowledge_result = knowledge, !.errors = errs,
          !.execution_path = <<"classify">>] :
        q \in Queries, c \in Tokens \cup {""}, code \in Contents,
        knowledge \in Contents, errs \in {<< >>, <<"Code expert error">>} }

LegacyComposeInit ==
    /\ ResolverIdle
    /\ AgentIdle
    /\ McpIdle
    /\ StreamIdle
    /\ NetworkIdle
    /\ fsenv = [link |-> <<"etc">>, cwd |-> HOME]
    /\ agents = AgentKeys
    /\ gnode = "compose"
    /\ gphase = "enter"
    /\ state \in LegacyComposeStates
    /\ supervisor_output = << >>
    /\ events = << >>
    /\ result = [kind |-> "none"]
    /\ parked = IdleRequest
    /\ written = NothingWritten

LegacyComposeNext == LegacyCompose \/ LegacyReturn

LegacyComposeSpec == LegacyComposeInit /\ [][LegacyComposeNext]_vars

(***************************************************************************)
(* Capability resolver: claims.                                            *)
(***************************************************************************)
\* the availability the called implementation resolves against
AvailableIn(call) ==
    CASE call.impl = "registry"    -> get_available_tools(call.context)
      [] call.impl = "server"      -> context_mcp_map(call.context)
      [] call.impl = "setup_agent" -> Range(call.cache)

SomeRequiredUnavailable(call) ==
    \E i \in DOMAIN call.required : call.required[i] \notin AvailableIn(call)

UnavailableRequired(call) ==
    { n \in Range(call.required) : n \notin AvailableIn(call) }

\* C8: under fallbackMode = Degrade, when at least one required tool is
\* unavailable, resolve returns (does not raise) and the resolved list holds
\* no required tool at all: it is exactly the available optional tools, in
\* order.
C8_DegradeDropsAllRequired ==
    (rcall # NoCall /\ rcall.mode = "degrade" /\ SomeRequiredUnavailable(rcall))
        => /\ rout.kind = "returned"
           /\ rout.resolved =
                SelectSeq(rcall.optional, LAMBDA n : n \in AvailableIn(rcall))

\* C9: under fallbackMode = Fail, when at least one required tool is
\* unavailable, resolve raises and the error names exactly the unavailable
\* required tools: all of them and nothing else.
C9_FailNamesExactlyMissing ==
    (rcall # NoCall /\ rcall.mode = "fail" /\ SomeRequiredUnavailable(rcall))
        => /\ rout.kind = "raised"
           /\ rout.named = UnavailableRequired(rcall)

\* C10: every resolution that is returned has resolved within the tools
\* available in the context, and no name of missing_required in resolved;
\* this for every required list, optional list, context and fallback mode,
\* lists sharing a name included.
C10_ResolvedWithinAvailable ==
    (rcall # NoCall /\ rout.kind = "returned")
        => /\ Range(rout.resolved) \subseteq AvailableIn(rcall)
           /\ rcall.impl = "registry"
                => Range(rout.missing_required) \cap Range(rout.resolved) = {}

\* a degraded resolution of lists that share a name: something is missing,
\* something is resolved
C10_Witness ==
    /\ rcall # NoCall
    /\ rcall.impl = "registry"
    /\ rout.kind = "returned"
    /\ rout.missing_required # <<>>
    /\ rout.resolved # <<>>
    /\ Range(rcall.required) \cap Range(rcall.optional) # {}

UnavailableOptional(call) ==
    SelectSeq(call.optional, LAMBDA n : n \notin AvailableIn(call))

AvailableOf(names, call) == SelectSeq(names, LAMBDA n : n \in AvailableIn(call))

NoRepeat(names) ==
    \A i, j \in DOMAIN names : names[i] = names[j] => i = j

\* C12: for lists that name each tool once, every resolved list is the
\* available required tools followed by the available optional tools, each
\* group in the order the caller supplied (the required group may be absent
\* from a degraded resolution).
C12_RequiredFirstInCallerOrder ==
    (rcall # NoCall /\ rout.kind = "returned"
       /\ NoRepeat(rcall.required \o rcall.optional))
        => \/ rout.resolved = AvailableOf(rcall.required, rcall)
                                  \o AvailableOf(rcall.optional, rcall)
           \/ /\ rcall.mode = "degrade"
              /\ SomeRequiredUnavailable(rcall)
              /\ rout.resolved = AvailableOf(rcall.optional, rcall)

(***************************************************************************)
(* Access guard and tool loop: claims.                                     *)
(***************************************************************************)
\* the roots the guard of this invocation enforces
Roots == allowed_roots(running_agent.context, fsenv)

\* p's resolved absolute form is a root or lies below one: the root followed
\* by some (possibly empty) further components
InsideSomeRoot(p) ==
    /\ ~p.nul
    /\ LET t == resolve(p, fsenv)
       IN  \E i \in DOMAIN Roots : \E k \in 0..Len(t) :
              /\ k = Len(Roots[i])
              /\ \A j \in 1..k : t[j] = Roots[i][j]

\* every path-bearing argument present in the call is inside some root
CallInsideRoots(call) ==
    call.name \in DOMAIN filesystem_tools
        => \A j \in DOMAIN filesystem_tools[call.name] :
              LET f == filesystem_tools[call.name][j]
              IN  f \in DOMAIN call.args => InsideSomeRoot(call.args[f])

Checks == SelectSeq(trace, LAMBDA e : e.ev = "check")
ToolResults == SelectSeq(messages, LAMBDA m : m.type \in {"error", "tool", "raised"})

\* C1: for a listed filesystem tool, the guard allows the call iff the
\* resolved absolute form of every path-bearing argument passed is an allowed
\* root or a descendant of one; so a path that leaves the roots through ".."
\* or through a symlink is denied.
C1_AllowIffInsideRoot ==
    \A i \in DOMAIN trace :
        (trace[i].ev = "check" /\ trace[i].call.name \in DOMAIN filesystem_tools)
            => (trace[i].allow <=> CallInsideRoots(trace[i].call))

\* a read below the project root, spelled through the symlink that points
\* out of the project, has been denied
C1_Witness ==
    /\ Roots = << <<"proj">> >>
    /\ fsenv.link = <<"etc">>
    /\ \E i \in DOMAIN trace :
          /\ trace[i].ev = "check"
          /\ trace[i].call.name = "read_file"
          /\ "path" \in DOMAIN trace[i].call.args
          /\ trace[i].call.args["path"] = AbsPath(<<"proj", "link", "etc">>)
          /\ ~trace[i].allow

\* C2: every handler execution is immediately preceded by a guard check of
\* the very same call that allowed it; every check's decision is the one
\* that call's own name and arguments give (none is carried over from an
\* earlier call); a denied call is not followed by its execution.
C2_CheckedFreshBeforeEachExecution ==
    \A i \in DOMAIN trace :
        /\ trace[i].ev = "exec"
              => /\ i > 1
                 /\ trace[i-1].ev = "check"
                 /\ trace[i-1].call = trace[i].call
                 /\ trace[i-1].allow
                 /\ CallInsideRoots(trace[i].call)
        /\ trace[i].ev = "check"
              => /\ trace[i].allow <=> CallInsideRoots(trace[i].call)
                 /\ (~trace[i].allow /\ i < Len(trace)) => trace[i+1].ev = "check"

\* an allowed and executed call was followed, in the same invocation, by a
\* call the guard denied
C2_Witness ==
    \E i \in DOMAIN trace : \E j \in DOMAIN trace :
        /\ i < j
        /\ trace[i].ev = "exec"
        /\ trace[i].call.name \in DOMAIN filesystem_tools
        /\ trace[j].ev = "check"
        /\ ~trace[j].allow

\* C3: a denial raises nothing: the k-th check, when it denies, leaves as the
\* k-th tool result of the conversation an error result for that call naming
\* the offending path and the allowed roots; the invocation never ends through
\* a tool error, and after a denial the loop goes on to the next tool call or
\* the next model call.
C3_DenialIsFedBack ==
    /\ Len(ToolResults) = Len(Checks)
    /\ \A k \in DOMAIN Checks :
          ~Checks[k].allow
              => /\ ToolResults[k].type = "error"
                 /\ ToolResults[k].denied
                 /\ ToolResults[k].call = Checks[k].call
                 /\ ~InsideSomeRoot(ToolResults[k].path)
                 /\ ToolResults[k].roots = Roots
    /\ aresult.kind = "error" => aresult.cause = "model"
    /\ (messages # << >> /\ messages[Len(messages)].type = "error")
          => \/ apc = "tools" /\ pending # << >>
             \/ apc = "model"
             \/ apc = "done" /\ aresult = [kind |-> "error", cause |-> "model"]

\* a read of /etc/etc under the root /proj was denied, its denial is in the
\* conversation, and the model was called again after it
C3_Witness ==
    /\ Roots = << <<"proj">> >>
    /\ \E j \in DOMAIN messages :
          /\ messages[j].type = "error"
          /\ messages[j].path = AbsPath(<<"etc", "etc">>)
          /\ \E k \in DOMAIN messages : k > j /\ messages[k].type = "ai"

Specialists == {"code_expert", "knowledge_scout"}
\* the specialist nodes the run has entered so far
SpecialistsRun == { n \in Specialists : Started(n) \in Range(events) }
\* the specification's routing table
RoutingTable(token) ==
    CASE token = "CODE_TASK"     -> {"code_expert"}
      [] token = "RESEARCH_TASK" -> {"knowledge_scout"}
      [] token = "HYBRID_TASK"   -> {"code_expert", "knowledge_scout"}
SpecialistsOver == gnode \in {"compose", "END", "returned"}

\* C4: with every agent initialised, once the specialists' part of a run is
\* over, the specialists that ran
\* are exactly those the routing table gives for the classification token:
\* CODE_TASK only the code specialist, RESEARCH_TASK only the research
\* specialist, HYBRID_TASK both.
C4_RoutingTable ==
    (agents = AgentKeys /\ SpecialistsOver
       /\ state.classification \in ClassificationTokens)
        => SpecialistsRun = RoutingTable(state.classification)

\* C5: with every agent initialised, a run classified HYBRID_TASK that has
\* returned ran both specialists,
\* its execution path holds both specialist names followed by the compose
\* stage, and its response holds a code section and an explanation section.
C5_HybridRunsBoth ==
    (agents = AgentKeys /\ gnode = "returned"
       /\ result.classification = "HYBRID_TASK")
        => /\ SpecialistsRun = Specialists
           /\ Specialists \subseteq Range(result.execution_path)
           /\ result.execution_path[Len(result.execution_path)] = "compose_response"
           /\ {"**CODE SOLUTION:**", "**CONTEXT & EXPLANATION:**"}
                  \subseteq Range(result.response)

HasToken(line) == line.tag /\ line.words # << >>
\* no line of the response gives a classification word
Unparsable(response) == \A i \in 1..Len(response) : ~HasToken(response[i])
\* the first classification word of the response is none of the three
UnrecognizedToken(response) ==
    \E i \in 1..Len(response) :
        /\ HasToken(response[i])
        /\ \A j \in 1..(i-1) : ~HasToken(response[j])
        /\ response[i].words[1] \notin ClassificationTokens

\* C6: when the classifier answered and its answer cannot be parsed or names
\* a token other than the three, the classification is CODE_TASK, the
\* defaulting is recorded in the errors of the run, and the run continues
\* to the code specialist.
C6_DefaultsToCodeTaskAndRecords ==
    (supervisor_output # << >>
       /\ (Unparsable(supervisor_output) \/ UnrecognizedToken(supervisor_output)))
        => /\ state.classification = "CODE_TASK"
           /\ state.errors # << >>
           /\ gnode = "code_expert" \/ SpecialistsRun = {"code_expert"}

Before(e, i) == \E j \in 1..(i-1) : events[j] = e
\* the specialist the graph selected for the run, once classify has ended
Selected == EdgeFrom("classify", state)

Raised(n) == [n |-> n, ev |-> "raised"]
ResultOf(n) ==
    IF n = "code_expert" THEN state.code_expert_result ELSE state.knowledge_result

\* C14: a run classified CODE_TASK or RESEARCH_TASK runs exactly the one
\* specialist of its branch, and when a specialist whose tools were resolved
\* raised, the run is at or past compose with an empty result for that specialist: the exception
\* aborted nothing.
C14_OneSpecialistFailureReachesCompose ==
    /\ (SpecialistsOver /\ state.classification \in {"CODE_TASK", "RESEARCH_TASK"})
          => SpecialistsRun = RoutingTable(state.classification)
    /\ \A n \in Specialists :
          (Raised(n) \in Range(events) /\ rout.kind # "raised")
              => /\ SpecialistsOver
                 /\ ResultOf(n) = ""
                 /\ result.kind # "raised"

\* C15: when a specialist's tool resolution raised under the fail policy,
\* the request is not aborted: the run goes on to compose and what execute()
\* gives its caller is a response, not the exception.
C15_FailedResolutionAbortsOnlyUnit ==
    (gnode # "idle" /\ rcall # NoCall /\ rout.kind = "raised")
        => /\ SpecialistsOver
           /\ result.kind # "raised"

ClassifierUnavailable ==
    \/ gnode # "idle" /\ "supervisor" \notin agents
    \/ "Classification error" \in Range(state.errors)

\* C16: with both specialists initialised, when the classifier is unavailable
\* (no supervisor agent, or its call raised), no specialist runs and the caller receives a top-level error
\* response.
C16_ClassifierUnavailableIsFatal ==
    (ClassifierUnavailable /\ Specialists \subseteq agents)
        => /\ SpecialistsRun = {}
           /\ gnode = "returned"
                 => /\ result.response # << >>
                    /\ result.response[1] = "Error"
                    /\ result.execution_path = << >>

\* C17: whatever failed inside the graph, execute() gives its caller a
\* structured result with a response and an errors list; it never raises.
C17_AlwaysStructuredResult ==
    /\ result.kind \in {"none", "response"}
    /\ gnode # "aborted"
    /\ result.kind = "response"
          => /\ result.response # << >>
             /\ "errors" \in DOMAIN result

(***************************************************************************)
(* Claims about the iteration cap, the timeout and compose.                *)
(***************************************************************************)
\* C18: an invocation that is done has an answer, unless the model call
\* itself raised; in particular, using up the iterations is not an error.
C18_CapYieldsAnswer ==
    apc = "done" => (aresult.kind = "answer" \/ aresult = CaughtError("model"))

\* C19: every request that awaits an agent eventually returns a response,
\* even if the agent never answers.
C19_EveryRequestReturns ==
    (gphase = "await") ~> (gnode = "returned")

PositionsOf(piece, text) == { i \in DOMAIN text : text[i] = piece }

\* C20: for every combination of empty and non-empty code and research
\* result, compose leaves a non-empty response, and when both are non-empty
\* the code section and the code result come before the explanation section
\* and the research result.
C20_ComposeTotalCodeFirst ==
    gnode \in {"END", "returned"}
        => /\ state.final_response # << >>
           /\ \A i \in DOMAIN state.final_response : state.final_response[i] # ""
           /\ (state.code_expert_result # "" /\ state.knowledge_result # "")
                 => \E c \in PositionsOf("**CODE SOLUTION:**", state.final_response),
                       e \in PositionsOf("**CONTEXT & EXPLANATION:**", state.final_response) :
                       /\ c + 1 < e
                       /\ state.final_response[c + 1] = state.code_expert_result
                       /\ state.final_response[e + 1] = state.knowledge_result

\* compose has run on a state with both results and the two-section response
\* was returned
C20_Witness ==
    /\ gnode = "returned"
    /\ state.code_expert_result # ""
    /\ state.knowledge_result # ""
    /\ Len(result.response) > 1

FixedMessages ==
    { "Unable to generate response. Please try again.",
      "No response generated.", "No response generated" }

\* C21: after compose, when exactly one of the two results is non-empty the
\* response is that result and nothing else; when both are empty the
\* response is the fixed message.
C21_SingleResultVerbatim ==
    gnode \in {"END", "returned"}
        => /\ (state.code_expert_result # "" /\ state.knowledge_result = "")
                 => state.final_response = << state.code_expert_result >>
           /\ (state.code_expert_result = "" /\ state.knowledge_result # "")
                 => state.final_response = << state.knowledge_result >>
           /\ (state.code_expert_result = "" /\ state.knowledge_result = "")
                 => /\ Len(state.final_response) = 1
                    /\ state.final_response[1] \in FixedMessages

\* the names under which a stage may appear on the execution path
StagePathNames(n) ==
    CASE n = "classify"        -> {"classify_task", "classify_task (failed)"}
      [] n = "code_expert"     -> {"code_expert"}
      [] n = "knowledge_scout" -> {"knowledge_scout"}
      [] n = "compose"         -> {"compose_response"}
StagesStarted == SelectSeq(events, LAMBDA e : e.ev = "start")

\* C22: with every agent initialised, a returned run whose classifier
\* answered CODE_TASK has the path classify, code specialist, compose and
\* the code specialist's content, when it has any, as its response; one
\* whose classifier
\* answered RESEARCH_TASK has the path classify, research specialist, compose.
C22_CodeAndResearchPaths ==
    (agents = AgentKeys /\ gnode = "returned" /\ supervisor_output # << >>)
        => /\ result.classification = "CODE_TASK"
                 => /\ result.execution_path =
                          <<"classify_task", "code_expert", "compose_response">>
                    /\ state.code_expert_result # ""
                          => result.response = << state.code_expert_result >>
           /\ result.classification = "RESEARCH_TASK"
                 => result.execution_path =
                       <<"classify_task", "knowledge_scout", "compose_response">>

\* C23: the returned execution path is the sequence of the stages the run
\* entered: one entry per stage, in order, under the stage's name, also for
\* a stage that failed or fell back to a default.
C23_PathIsStagesTraversed ==
    gnode = "returned"
        => /\ Len(result.execution_path) = Len(StagesStarted)
           /\ \A i \in DOMAIN result.execution_path :
                 i <= Len(StagesStarted)
                     => result.execution_path[i] \in StagePathNames(StagesStarted[i].n)

\* the tools whose handler ran during the invocation
InvokedTools == { trace[i].call.name : i \in { j \in DOMAIN trace : trace[j].ev = "exec" } }

\* C24: the toolsused of the AgentOutput of a finished invocation are exactly
\* the tools invoked during it; a tool that was bound but never called is
\* not listed.
C24_ToolsUsedAreInvoked ==
    apc = "done" => Range(AgentOutput(aresult).toolsused) = InvokedTools

\* C25: when a HYBRID_TASK run with every agent initialised arrives at
\* compose, both specialists have completed, and when neither failed the
\* merged state holds both execution-path entries.
C25_HybridMergesBothSpecialists ==
    (agents = AgentKeys /\ gnode = "compose" /\ state.classification = "HYBRID_TASK")
        => \A n \in Specialists :
              /\ Ended(n) \in Range(events)
              /\ state.errors = << >> => n \in Range(state.execution_path)

\* C28: a call to a tool outside filesystem_tools is allowed whatever its
\* arguments hold, its handler runs right after the check, and the call's
\* result in the conversation is the handler's.
C28_UnlistedToolAlwaysForwarded ==
    \A k \in DOMAIN Checks :
        Checks[k].call.name \notin DOMAIN filesystem_tools
            => /\ Checks[k].allow
               /\ \E i \in DOMAIN trace :
                     /\ trace[i] = Checks[k]
                     /\ i < Len(trace)
                     /\ trace[i+1] = [ev |-> "exec", call |-> Checks[k].call]
               /\ k \in DOMAIN ToolResults
               /\ ToolResults[k] = HandlerResult(Checks[k].call)

\* git_status, which the guard does not list, ran with a path argument that
\* lies outside the invocation's roots
C28_Witness ==
    \E i \in DOMAIN trace :
        /\ trace[i].ev = "exec"
        /\ trace[i].call.name = "git_status"
        /\ "path" \in DOMAIN trace[i].call.args
        /\ ~InsideSomeRoot(trace[i].call.args["path"])

(***************************************************************************)
(* Claims about the context's allowed roots.                               *)
(***************************************************************************)
\* the context's working directory is an existing directory
WorkingDirValid ==
    /\ ~agent_context.working_dir.nul
    /\ resolve(agent_context.working_dir, fsenv) \in Directories

\* C29: for every source and working directory an agent was set up with,
\* reading the allowed roots raised nothing, the roots are a non-empty list
\* of existing directories in absolute form, and they are the home directory
\* alone when the working directory is no existing directory.
C29_RootsExistAndNeverRaise ==
    apc # "idle"
        => /\ ~allowed_roots_raises(agent_context)
           /\ aresult.kind # "raised"
           /\ Roots # << >>
           /\ \A i \in DOMAIN Roots : Roots[i] \in Directories
           /\ ~WorkingDirValid => Roots = << HOME >>

\* root is a proper prefix of p
StrictAncestor(root, p) ==
    /\ Len(root) < Len(p)
    /\ SubSeq(p, 1, Len(root)) = root

\* C30: for every source and every absolute working directory that can be
\* resolved, valid or not, no allowed root is a strict ancestor of the
\* working directory's resolved form.
C30_NoRootAboveWorkingDir ==
    (apc # "idle" /\ agent_context.working_dir.abs
       /\ ~allowed_roots_raises(agent_context))
        => \A i \in DOMAIN Roots :
              ~StrictAncestor(Roots[i], resolve(agent_context.working_dir, fsenv))

(***************************************************************************)
(* Claims about two runs of one orchestrator.                              *)
(***************************************************************************)
\* C26: two runs of one orchestrator that have returned, with the same query
\* and context and a classifier that returned the same response to both,
\* returned the same classification and the same execution path.
C26_SameInputsSameRoute ==
    (/\ gnode = "returned" /\ parked.gnode = "returned"
     /\ result.query = parked.result.query
     /\ result.context = parked.result.context
     /\ supervisor_output # << >>
     /\ supervisor_output = parked.supervisor_output)
        => /\ result.classification = parked.result.classification
           /\ result.execution_path = parked.result.execution_path

\* what r returned is what its own nodes wrote
OwnWritesOnly(r) ==
    /\ r.result.classification = r.written.classification
    /\ r.state.code_expert_result = r.written.code_expert_result
    /\ r.state.knowledge_result = r.written.knowledge_result
    /\ Range(r.result.tools_used) = Range(r.written.tools_used)
    /\ r.result.execution_path = r.written.execution_path
    /\ r.result.errors = r.written.errors

\* C27: of two runs in flight in one orchestrator, each one that has
\* returned holds in its classification, specialist results, tools used,
\* execution path and errors what its own nodes wrote, and nothing else.
C27_RequestScopedState ==
    /\ gnode = "returned" => OwnWritesOnly(ActiveRequest)
    /\ parked.gnode = "returned" => OwnWritesOnly(parked)

\* a CODE_TASK run returned its three stages while a RESEARCH_TASK run of the
\* same orchestrator, classified before, awaited its specialist
C27_Witness ==
    /\ gnode = "returned"
    /\ result.execution_path = <<"classify_task", "code_expert", "compose_response">>
    /\ result.tools_used = << >>
    /\ parked.gnode = "knowledge_scout"
    /\ parked.gphase = "await"
    /\ parked.state.tools_used = <<"git">>
    /\ parked.state.execution_path = <<"classify_task">>

(***************************************************************************)
(* Further claims about the guard, the agent and the compose stage.        *)
(***************************************************************************)
\* the call was handed to its handler
Executed(call) == \E i \in DOMAIN trace : trace[i] = [ev |-> "exec", call |-> call]

\* the call names both fields of a move, exactly one of them inside the roots
MixedMove(call) ==
    /\ call.name = "move_file"
    /\ DOMAIN call.args = {"source", "destination"}
    /\ InsideSomeRoot(call.args["source"]) # InsideSomeRoot(call.args["destination"])

\* C31: a listed filesystem tool whose handler ran had every path field of
\* its arguments inside an allowed root; a move_file with one of source and
\* destination inside the roots and the other outside was denied and its
\* handler did not run.
C31_ExecutedOnlyInsideRoots ==
    \A i \in DOMAIN trace :
        /\ (trace[i].ev = "exec" /\ trace[i].call.name \in DOMAIN filesystem_tools)
              => CallInsideRoots(trace[i].call)
        /\ (trace[i].ev = "check" /\ MixedMove(trace[i].call))
              => /\ ~trace[i].allow
                 /\ ~Executed(trace[i].call)

\* a move from inside the project to a destination outside it was checked
\* and denied
C31_Witness ==
    /\ Roots = << <<"proj">> >>
    /\ \E i \in DOMAIN trace :
          /\ trace[i].ev = "check"
          /\ MixedMove(trace[i].call)
          /\ InsideSomeRoot(trace[i].call.args["source"])
          /\ ~trace[i].allow

\* every path-bearing argument present in the call is at or below one of roots
CallInsideRootsOf(call, roots) ==
    call.name \in DOMAIN filesystem_tools
        => \A j \in DOMAIN filesystem_tools[call.name] :
              LET f == filesystem_tools[call.name][j]
              IN  f \in DOMAIN call.args
                    => /\ ~call.args[f].nul
                       /\ \E r \in DOMAIN roots :
                             relative_to(resolve(call.args[f], fsenv), roots[r])

\* the invocation's agent is the one its own setup built, and every check of
\* the invocation was decided by the roots of that setup's context
KeepsOwnSetup(inv) ==
    /\ inv.apc \in {"model", "tools"} => inv.running_agent.tools = BoundTools
    /\ \A i \in DOMAIN inv.trace :
          inv.trace[i].ev = "check"
              => (inv.trace[i].allow
                    <=> CallInsideRootsOf(inv.trace[i].call,
                            allowed_roots(inv.running_agent.context, fsenv)))

C33_CatalogInitialisedOnce ==
    \A c \in Callers :
        init_calls[c].at = "returned"
            => /\ init_calls[c].exit_cache # "None"
               /\ init_calls[c].later
                     => /\ init_calls[c].exit_client = init_calls[c].entry_client
                        /\ init_calls[c].exit_cache = init_calls[c].entry_cache

\* C34: the compose step leaves query, context, classification, both
\* specialist results, tools_used and errors as they were, and appends
\* "compose_response" once to the execution path; final_response is the only
\* other field it sets.
C34_ComposeFrame ==
    [][gnode = "compose"
         => /\ \A f \in {"query", "context", "classification", "code_expert_result",
                         "knowledge_result", "tools_used", "errors"} :
                  state'[f] = state[f]
            /\ state'.execution_path = Append(state.execution_path, "compose_response")
            /\ DOMAIN state' = DOMAIN state]_vars

\* a run with a recorded error and a tool used is past its compose stage,
\* whose name is in its path once
C34_Witness ==
    /\ gnode = "END"
    /\ state.errors # << >>
    /\ state.tools_used # << >>
    /\ Len(SelectSeq(state.execution_path, LAMBDA n : n = "compose_response")) = 1

(***************************************************************************)
(* Further claims about tool selection.                                    *)
(***************************************************************************)
\* C35: every tool an agent's setup or the server's resolver selected bears
\* a name that is one of the manifest's required or optional names; a
\* catalog tool whose name merely contains such a name is not selected.
C35_ExactNameMatchOnly ==
    (rcall # NoCall /\ rcall.impl \in {"setup_agent", "server"} /\ rout.kind = "returned")
        => \A i \in DOMAIN rout.resolved :
              \E m \in Range(rcall.required \o rcall.optional) : rout.resolved[i] = m

\* with git_status and git in the catalog and git in the manifest, setup
\* selected git alone
C35_Witness ==
    /\ rcall # NoCall
    /\ rcall.impl = "setup_agent"
    /\ rcall.cache = <<"git_status", "git">>
    /\ "git" \in Range(rcall.required)
    /\ rout.kind = "returned"
    /\ rout.resolved = <<"git">>

(***************************************************************************)
(* Further claims about the returned result.                               *)
(***************************************************************************)
UnableToGenerate == << "Unable to generate response. Please try again." >>

\* C36: a returned result whose response is the fixed unable-to-generate
\* message has a non-empty errors list.
C36_NoContentHasAnError ==
    (gnode = "returned" /\ result.response = UnableToGenerate)
        => result.errors # << >>

\* C37: while a client for an execution id is connected the id has a socket
\* registered, and once every client that asked for an id has gone the id
\* has none
C37_ConnectedClientIsRegistered ==
    /\ \A c \in Clients :
          sockets[c].at = "receiving" => active_connections[sockets[c].id] # "None"
    /\ \A e \in ExecutionIds :
          (\A c \in Clients : sockets[c].id = e => sockets[c].at = "closed")
              => active_connections[e] = "None"

\* C38: execute_parallel never raises, and what it returns holds one result
\* per team in team order, every team having run to its end, with success
\* false and the error text for a team whose chat raised
C38_OneResultPerTeamInOrder ==
    /\ network.pc # "raised"
    /\ network.pc = "returned"
          => /\ Len(network.results) = Len(TeamIds)
             /\ \A i \in 1..Len(TeamIds) :
                   LET run == team_runs[TeamIds[i]]
                       r == network.results[i]
                   IN  /\ run.at = "done"
                       /\ r.team_name = team_name(TeamIds[i])
                       /\ r.success = ~run.outcome.raises
                       /\ run.outcome.raises => r.error = run.outcome.error

\* a run returned in which the last team ended first, the second team raised
\* and the first team succeeded
C38_Witness ==
    /\ network.pc = "returned"
    /\ network.finished[1] = "team_c"
    /\ team_runs["team_b"].outcome.raises
    /\ ~team_runs["team_a"].outcome.raises
    /\ network.results[2].error = "timeout"

=============================================================================
